---- MODULE Spec2Model ----
\* Loopback OAuth callback listener of apps/web/src-tauri/src/lib.rs:
\* start_oauth_server binds 127.0.0.1:0, spawns a worker that runs a bounded
\* accept loop, reads one HTTP request per connection (read_request),
\* dispatches it by method and path, answers it (send_response) and, for the
\* callback POST, emits "oauth-callback" and leaves the loop.
\*
\* A Rust String / &str is modelled as the sequence of its UTF-8 bytes
\* (integers 0..255), so str::len, str::find and slicing are byte offsets as
\* in Rust.  Option::None of an offset is -1.
EXTENDS Integers, Sequences, FiniteSets, TLC

VARIABLES
    caller,           \* position of the caller inside start_oauth_server
    ret,              \* value start_oauth_server returned
    listener,         \* the TcpListener: state and bound port
    pc,               \* position of the spawned worker thread
    i,                \* number of values the iterator 0..20 has yielded
    accepted,         \* accept() calls that returned Ok
    acceptErrs,       \* accept() calls that returned Err
    stream,           \* what the peer of the current connection still delivers
    buf,              \* read_request: the slices extend_from_slice appended to buf, in order
    reads,            \* read_request: stream.read calls made on this connection
    request,          \* the String read_request returned
    written,          \* bytes handed to stream.write_all on this connection
    responses,        \* send_response calls made in the session
    emitted           \* payloads handed to app_handle.emit("oauth-callback", _)

vars == << caller, ret, listener, pc, i, accepted, acceptErrs,
           stream, buf, reads, request, written, responses, emitted >>

----------------------------------------------------------------------------
\* Literals of the source

\* LOGIN_HTML: the 4973 bytes (UTF-8) of the raw string literal, 4657 characters
LOGIN_HTML == <<
    60, 33, 68, 79, 67, 84, 89, 80, 69, 32, 104, 116, 109, 108, 62, 10, 60, 104, 116, 109, 108, 32, 108, 97,
    110, 103, 61, 34, 107, 111, 34, 62, 10, 60, 104, 101, 97, 100, 62, 10, 60, 109, 101, 116, 97, 32, 99, 104,
    97, 114, 115, 101, 116, 61, 34, 117, 116, 102, 45, 56, 34, 62, 10, 60, 109, 101, 116, 97, 32, 110, 97, 109,
    101, 61, 34, 118, 105, 101, 119, 112, 111, 114, 116, 34, 32, 99, 111, 110, 116, 101, 110, 116, 61, 34, 119, 105,
    100, 116, 104, 61, 100, 101, 118, 105, 99, 101, 45, 119, 105, 100, 116, 104, 44, 32, 105, 110, 105, 116, 105, 97,
    108, 45, 115, 99, 97, 108, 101, 61, 49, 34, 62, 10, 60, 116, 105, 116, 108, 101, 62, 65, 73, 32, 84, 111,
    100, 111, 32, 45, 32, 71, 111, 111, 103, 108, 101, 32, 76, 111, 103, 105, 110, 60, 47, 116, 105, 116, 108, 101,
    62, 10, 60, 115, 116, 121, 108, 101, 62, 10, 32, 32, 42, 32, 123, 32, 109, 97, 114, 103, 105, 110, 58, 32,
    48, 59, 32, 112, 97, 100, 100, 105, 110, 103, 58, 32, 48, 59, 32, 98, 111, 120, 45, 115, 105, 122, 105, 110,
    103, 58, 32, 98, 111, 114, 100, 101, 114, 45, 98, 111, 120, 59, 32, 125, 10, 32, 32, 98, 111, 100, 121, 32,
    123, 32, 102, 111, 110, 116, 45, 102, 97, 109, 105, 108, 121, 58, 32, 115, 121, 115, 116, 101, 109, 45, 117, 105,
    44, 32, 45, 97, 112, 112, 108, 101, 45, 115, 121, 115, 116, 101, 109, 44, 32, 115, 97, 110, 115, 45, 115, 101,
    114, 105, 102, 59, 32, 98, 97, 99, 107, 103, 114, 111, 117, 110, 100, 58, 32, 35, 48, 56, 48, 56, 49, 97,
    59, 32, 99, 111, 108, 111, 114, 58, 32, 35, 101, 50, 101, 56, 102, 48, 59, 32, 100, 105, 115, 112, 108, 97,
    121, 58, 32, 102, 108, 101, 120, 59, 32, 97, 108, 105, 103, 110, 45, 105, 116, 101, 109, 115, 58, 32, 99, 101,
    110, 116, 101, 114, 59, 32, 106, 117, 115, 116, 105, 102, 121, 45, 99, 111, 110, 116, 101, 110, 116, 58, 32, 99,
    101, 110, 116, 101, 114, 59, 32, 109, 105, 110, 45, 104, 101, 105, 103, 104, 116, 58, 32, 49, 48, 48, 118, 104,
    59, 32, 125, 10, 32, 32, 46, 99, 97, 114, 100, 32, 123, 32, 98, 97, 99, 107, 103, 114, 111, 117, 110, 100,
    58, 32, 35, 49, 49, 49, 49, 50, 56, 59, 32, 98, 111, 114, 100, 101, 114, 58, 32, 49, 112, 120, 32, 115,
    111, 108, 105, 100, 32, 35, 49, 101, 49, 101, 51, 97, 59, 32, 98, 111, 114, 100, 101, 114, 45, 114, 97, 100,
    105, 117, 115, 58, 32, 49, 54, 112, 120, 59, 32, 112, 97, 100, 100, 105, 110, 103, 58, 32, 52, 56, 112, 120,
    59, 32, 116, 101, 120, 116, 45, 97, 108, 105, 103, 110, 58, 32, 99, 101, 110, 116, 101, 114, 59, 32, 109, 97,
    120, 45, 119, 105, 100, 116, 104, 58, 32, 52, 48, 48, 112, 120, 59, 32, 119, 105, 100, 116, 104, 58, 32, 57,
    48, 37, 59, 32, 125, 10, 32, 32, 104, 49, 32, 123, 32, 102, 111, 110, 116, 45, 115, 105, 122, 101, 58, 32,
    50, 56, 112, 120, 59, 32, 109, 97, 114, 103, 105, 110, 45, 98, 111, 116, 116, 111, 109, 58, 32, 56, 112, 120,
    59, 32, 98, 97, 99, 107, 103, 114, 111, 117, 110, 100, 58, 32, 108, 105, 110, 101, 97, 114, 45, 103, 114, 97,
    100, 105, 101, 110, 116, 40, 116, 111, 32, 114, 105, 103, 104, 116, 44, 32, 35, 101, 50, 101, 56, 102, 48, 44,
    32, 35, 101, 57, 52, 53, 54, 48, 41, 59, 32, 45, 119, 101, 98, 107, 105, 116, 45, 98, 97, 99, 107, 103,
    114, 111, 117, 110, 100, 45, 99, 108, 105, 112, 58, 32, 116, 101, 120, 116, 59, 32, 45, 119, 101, 98, 107, 105,
    116, 45, 116, 101, 120, 116, 45, 102, 105, 108, 108, 45, 99, 111, 108, 111, 114, 58, 32, 116, 114, 97, 110, 115,
    112, 97, 114, 101, 110, 116, 59, 32, 125, 10, 32, 32, 112, 32, 123, 32, 99, 111, 108, 111, 114, 58, 32, 35,
    57, 52, 97, 51, 98, 56, 59, 32, 109, 97, 114, 103, 105, 110, 45, 98, 111, 116, 116, 111, 109, 58, 32, 50,
    52, 112, 120, 59, 32, 102, 111, 110, 116, 45, 115, 105, 122, 101, 58, 32, 49, 52, 112, 120, 59, 32, 125, 10,
    32, 32, 46, 115, 112, 105, 110, 110, 101, 114, 32, 123, 32, 119, 105, 100, 116, 104, 58, 32, 52, 48, 112, 120,
    59, 32, 104, 101, 105, 103, 104, 116, 58, 32, 52, 48, 112, 120, 59, 32, 98, 111, 114, 100, 101, 114, 58, 32,
    51, 112, 120, 32, 115, 111, 108, 105, 100, 32, 35, 49, 101, 49, 101, 51, 97, 59, 32, 98, 111, 114, 100, 101,
    114, 45, 116, 111, 112, 45, 99, 111, 108, 111, 114, 58, 32, 35, 101, 57, 52, 53, 54, 48, 59, 32, 98, 111,
    114, 100, 101, 114, 45, 114, 97, 100, 105, 117, 115, 58, 32, 53, 48, 37, 59, 32, 97, 110, 105, 109, 97, 116,
    105, 111, 110, 58, 32, 115, 112, 105, 110, 32, 48, 46, 56, 115, 32, 108, 105, 110, 101, 97, 114, 32, 105, 110,
    102, 105, 110, 105, 116, 101, 59, 32, 109, 97, 114, 103, 105, 110, 58, 32, 50, 52, 112, 120, 32, 97, 117, 116,
    111, 59, 32, 125, 10, 32, 32, 64, 107, 101, 121, 102, 114, 97, 109, 101, 115, 32, 115, 112, 105, 110, 32, 123,
    32, 116, 111, 32, 123, 32, 116, 114, 97, 110, 115, 102, 111, 114, 109, 58, 32, 114, 111, 116, 97, 116, 101, 40,
    51, 54, 48, 100, 101, 103, 41, 59, 32, 125, 32, 125, 10, 32, 32, 46, 101, 114, 114, 111, 114, 32, 123, 32,
    99, 111, 108, 111, 114, 58, 32, 35, 101, 102, 52, 52, 52, 52, 59, 32, 109, 97, 114, 103, 105, 110, 45, 116,
    111, 112, 58, 32, 49, 54, 112, 120, 59, 32, 102, 111, 110, 116, 45, 115, 105, 122, 101, 58, 32, 49, 51, 112,
    120, 59, 32, 125, 10, 32, 32, 46, 115, 117, 99, 99, 101, 115, 115, 32, 123, 32, 99, 111, 108, 111, 114, 58,
    32, 35, 51, 52, 100, 51, 57, 57, 59, 32, 125, 10, 32, 32, 35, 115, 116, 97, 116, 117, 115, 32, 123, 32,
    109, 97, 114, 103, 105, 110, 45, 116, 111, 112, 58, 32, 49, 54, 112, 120, 59, 32, 102, 111, 110, 116, 45, 115,
    105, 122, 101, 58, 32, 49, 51, 112, 120, 59, 32, 99, 111, 108, 111, 114, 58, 32, 35, 57, 52, 97, 51, 98,
    56, 59, 32, 125, 10, 60, 47, 115, 116, 121, 108, 101, 62, 10, 60, 47, 104, 101, 97, 100, 62, 10, 60, 98,
    111, 100, 121, 62, 10, 60, 100, 105, 118, 32, 99, 108, 97, 115, 115, 61, 34, 99, 97, 114, 100, 34, 62, 10,
    32, 32, 60, 104, 49, 62, 65, 73, 32, 84, 111, 100, 111, 60, 47, 104, 49, 62, 10, 32, 32, 60, 112, 62,
    71, 111, 111, 103, 108, 101, 32, 234, 179, 132, 236, 160, 149, 236, 156, 188, 235, 161, 156, 32, 235, 161, 156, 234,
    183, 184, 236, 157, 184, 32, 236, 164, 145, 46, 46, 46, 60, 47, 112, 62, 10, 32, 32, 60, 100, 105, 118, 32,
    99, 108, 97, 115, 115, 61, 34, 115, 112, 105, 110, 110, 101, 114, 34, 32, 105, 100, 61, 34, 115, 112, 105, 110,
    110, 101, 114, 34, 62, 60, 47, 100, 105, 118, 62, 10, 32, 32, 60, 100, 105, 118, 32, 105, 100, 61, 34, 115,
    116, 97, 116, 117, 115, 34, 62, 236, 158, 160, 236, 139, 156, 235, 167, 140, 32, 234, 184, 176, 235, 139, 164, 235,
    160, 164, 236, 163, 188, 236, 132, 184, 236, 154, 148, 60, 47, 100, 105, 118, 62, 10, 32, 32, 60, 100, 105, 118,
    32, 99, 108, 97, 115, 115, 61, 34, 101, 114, 114, 111, 114, 34, 32, 105, 100, 61, 34, 101, 114, 114, 111, 114,
    34, 62, 60, 47, 100, 105, 118, 62, 10, 60, 47, 100, 105, 118, 62, 10, 60, 115, 99, 114, 105, 112, 116, 32,
    115, 114, 99, 61, 34, 104, 116, 116, 112, 115, 58, 47, 47, 119, 119, 119, 46, 103, 115, 116, 97, 116, 105, 99,
    46, 99, 111, 109, 47, 102, 105, 114, 101, 98, 97, 115, 101, 106, 115, 47, 49, 48, 46, 49, 50, 46, 48, 47,
    102, 105, 114, 101, 98, 97, 115, 101, 45, 97, 112, 112, 45, 99, 111, 109, 112, 97, 116, 46, 106, 115, 34, 62,
    60, 47, 115, 99, 114, 105, 112, 116, 62, 10, 60, 115, 99, 114, 105, 112, 116, 32, 115, 114, 99, 61, 34, 104,
    116, 116, 112, 115, 58, 47, 47, 119, 119, 119, 46, 103, 115, 116, 97, 116, 105, 99, 46, 99, 111, 109, 47, 102,
    105, 114, 101, 98, 97, 115, 101, 106, 115, 47, 49, 48, 46, 49, 50, 46, 48, 47, 102, 105, 114, 101, 98, 97,
    115, 101, 45, 97, 117, 116, 104, 45, 99, 111, 109, 112, 97, 116, 46, 106, 115, 34, 62, 60, 47, 115, 99, 114,
    105, 112, 116, 62, 10, 60, 115, 99, 114, 105, 112, 116, 62, 10, 40, 97, 115, 121, 110, 99, 32, 102, 117, 110,
    99, 116, 105, 111, 110, 40, 41, 32, 123, 10, 32, 32, 118, 97, 114, 32, 112, 97, 114, 97, 109, 115, 32, 61,
    32, 110, 101, 119, 32, 85, 82, 76, 83, 101, 97, 114, 99, 104, 80, 97, 114, 97, 109, 115, 40, 108, 111, 99,
    97, 116, 105, 111, 110, 46, 115, 101, 97, 114, 99, 104, 41, 59, 10, 32, 32, 118, 97, 114, 32, 99, 111, 110,
    102, 105, 103, 32, 61, 32, 123, 10, 32, 32, 32, 32, 97, 112, 105, 75, 101, 121, 58, 32, 112, 97, 114, 97,
    109, 115, 46, 103, 101, 116, 40, 39, 97, 112, 105, 75, 101, 121, 39, 41, 44, 10, 32, 32, 32, 32, 97, 117,
    116, 104, 68, 111, 109, 97, 105, 110, 58, 32, 112, 97, 114, 97, 109, 115, 46, 103, 101, 116, 40, 39, 97, 117,
    116, 104, 68, 111, 109, 97, 105, 110, 39, 41, 44, 10, 32, 32, 32, 32, 112, 114, 111, 106, 101, 99, 116, 73,
    100, 58, 32, 112, 97, 114, 97, 109, 115, 46, 103, 101, 116, 40, 39, 112, 114, 111, 106, 101, 99, 116, 73, 100,
    39, 41, 44, 10, 32, 32, 125, 59, 10, 32, 32, 118, 97, 114, 32, 109, 111, 100, 101, 32, 61, 32, 112, 97,
    114, 97, 109, 115, 46, 103, 101, 116, 40, 39, 109, 111, 100, 101, 39, 41, 32, 124, 124, 32, 39, 112, 111, 112,
    117, 112, 39, 59, 32, 47, 47, 32, 39, 112, 111, 112, 117, 112, 39, 32, 124, 32, 39, 114, 101, 100, 105, 114,
    101, 99, 116, 39, 10, 32, 32, 118, 97, 114, 32, 115, 116, 97, 116, 117, 115, 69, 108, 32, 61, 32, 100, 111,
    99, 117, 109, 101, 110, 116, 46, 103, 101, 116, 69, 108, 101, 109, 101, 110, 116, 66, 121, 73, 100, 40, 39, 115,
    116, 97, 116, 117, 115, 39, 41, 59, 10, 32, 32, 118, 97, 114, 32, 101, 114, 114, 111, 114, 69, 108, 32, 61,
    32, 100, 111, 99, 117, 109, 101, 110, 116, 46, 103, 101, 116, 69, 108, 101, 109, 101, 110, 116, 66, 121, 73, 100,
    40, 39, 101, 114, 114, 111, 114, 39, 41, 59, 10, 32, 32, 118, 97, 114, 32, 115, 112, 105, 110, 110, 101, 114,
    69, 108, 32, 61, 32, 100, 111, 99, 117, 109, 101, 110, 116, 46, 103, 101, 116, 69, 108, 101, 109, 101, 110, 116,
    66, 121, 73, 100, 40, 39, 115, 112, 105, 110, 110, 101, 114, 39, 41, 59, 10, 10, 32, 32, 97, 115, 121, 110,
    99, 32, 102, 117, 110, 99, 116, 105, 111, 110, 32, 115, 101, 110, 100, 67, 97, 108, 108, 98, 97, 99, 107, 40,
    117, 115, 101, 114, 44, 32, 97, 99, 99, 101, 115, 115, 84, 111, 107, 101, 110, 41, 32, 123, 10, 32, 32, 32,
    32, 118, 97, 114, 32, 117, 115, 101, 114, 68, 97, 116, 97, 32, 61, 32, 123, 10, 32, 32, 32, 32, 32, 32,
    117, 105, 100, 58, 32, 117, 115, 101, 114, 46, 117, 105, 100, 44, 10, 32, 32, 32, 32, 32, 32, 101, 109, 97,
    105, 108, 58, 32, 117, 115, 101, 114, 46, 101, 109, 97, 105, 108, 44, 10, 32, 32, 32, 32, 32, 32, 101, 109,
    97, 105, 108, 86, 101, 114, 105, 102, 105, 101, 100, 58, 32, 117, 115, 101, 114, 46, 101, 109, 97, 105, 108, 86,
    101, 114, 105, 102, 105, 101, 100, 44, 10, 32, 32, 32, 32, 32, 32, 100, 105, 115, 112, 108, 97, 121, 78, 97,
    109, 101, 58, 32, 117, 115, 101, 114, 46, 100, 105, 115, 112, 108, 97, 121, 78, 97, 109, 101, 44, 10, 32, 32,
    32, 32, 32, 32, 105, 115, 65, 110, 111, 110, 121, 109, 111, 117, 115, 58, 32, 117, 115, 101, 114, 46, 105, 115,
    65, 110, 111, 110, 121, 109, 111, 117, 115, 44, 10, 32, 32, 32, 32, 32, 32, 112, 104, 111, 116, 111, 85, 82,
    76, 58, 32, 117, 115, 101, 114, 46, 112, 104, 111, 116, 111, 85, 82, 76, 44, 10, 32, 32, 32, 32, 32, 32,
    112, 114, 111, 118, 105, 100, 101, 114, 68, 97, 116, 97, 58, 32, 117, 115, 101, 114, 46, 112, 114, 111, 118, 105,
    100, 101, 114, 68, 97, 116, 97, 46, 109, 97, 112, 40, 102, 117, 110, 99, 116, 105, 111, 110, 40, 112, 41, 32,
    123, 10, 32, 32, 32, 32, 32, 32, 32, 32, 114, 101, 116, 117, 114, 110, 32, 123, 10, 32, 32, 32, 32, 32,
    32, 32, 32, 32, 32, 112, 114, 111, 118, 105, 100, 101, 114, 73, 100, 58, 32, 112, 46, 112, 114, 111, 118, 105,
    100, 101, 114, 73, 100, 44, 10, 32, 32, 32, 32, 32, 32, 32, 32, 32, 32, 117, 105, 100, 58, 32, 112, 46,
    117, 105, 100, 44, 10, 32, 32, 32, 32, 32, 32, 32, 32, 32, 32, 100, 105, 115, 112, 108, 97, 121, 78, 97,
    109, 101, 58, 32, 112, 46, 100, 105, 115, 112, 108, 97, 121, 78, 97, 109, 101, 44, 10, 32, 32, 32, 32, 32,
    32, 32, 32, 32, 32, 101, 109, 97, 105, 108, 58, 32, 112, 46, 101, 109, 97, 105, 108, 44, 10, 32, 32, 32,
    32, 32, 32, 32, 32, 32, 32, 112, 104, 111, 110, 101, 78, 117, 109, 98, 101, 114, 58, 32, 112, 46, 112, 104,
    111, 110, 101, 78, 117, 109, 98, 101, 114, 44, 10, 32, 32, 32, 32, 32, 32, 32, 32, 32, 32, 112, 104, 111,
    116, 111, 85, 82, 76, 58, 32, 112, 46, 112, 104, 111, 116, 111, 85, 82, 76, 10, 32, 32, 32, 32, 32, 32,
    32, 32, 125, 59, 10, 32, 32, 32, 32, 32, 32, 125, 41, 44, 10, 32, 32, 32, 32, 32, 32, 115, 116, 115,
    84, 111, 107, 101, 110, 77, 97, 110, 97, 103, 101, 114, 58, 32, 123, 10, 32, 32, 32, 32, 32, 32, 32, 32,
    114, 101, 102, 114, 101, 115, 104, 84, 111, 107, 101, 110, 58, 32, 117, 115, 101, 114, 46, 114, 101, 102, 114, 101,
    115, 104, 84, 111, 107, 101, 110, 44, 10, 32, 32, 32, 32, 32, 32, 32, 32, 97, 99, 99, 101, 115, 115, 84,
    111, 107, 101, 110, 58, 32, 97, 99, 99, 101, 115, 115, 84, 111, 107, 101, 110, 44, 10, 32, 32, 32, 32, 32,
    32, 32, 32, 101, 120, 112, 105, 114, 97, 116, 105, 111, 110, 84, 105, 109, 101, 58, 32, 68, 97, 116, 101, 46,
    110, 111, 119, 40, 41, 32, 43, 32, 51, 54, 48, 48, 32, 42, 32, 49, 48, 48, 48, 10, 32, 32, 32, 32,
    32, 32, 125, 44, 10, 32, 32, 32, 32, 32, 32, 99, 114, 101, 97, 116, 101, 100, 65, 116, 58, 32, 83, 116,
    114, 105, 110, 103, 40, 110, 101, 119, 32, 68, 97, 116, 101, 40, 117, 115, 101, 114, 46, 109, 101, 116, 97, 100,
    97, 116, 97, 46, 99, 114, 101, 97, 116, 105, 111, 110, 84, 105, 109, 101, 41, 46, 103, 101, 116, 84, 105, 109,
    101, 40, 41, 41, 44, 10, 32, 32, 32, 32, 32, 32, 108, 97, 115, 116, 76, 111, 103, 105, 110, 65, 116, 58,
    32, 83, 116, 114, 105, 110, 103, 40, 110, 101, 119, 32, 68, 97, 116, 101, 40, 117, 115, 101, 114, 46, 109, 101,
    116, 97, 100, 97, 116, 97, 46, 108, 97, 115, 116, 83, 105, 103, 110, 73, 110, 84, 105, 109, 101, 41, 46, 103,
    101, 116, 84, 105, 109, 101, 40, 41, 41, 44, 10, 32, 32, 32, 32, 32, 32, 97, 112, 105, 75, 101, 121, 58,
    32, 99, 111, 110, 102, 105, 103, 46, 97, 112, 105, 75, 101, 121, 44, 10, 32, 32, 32, 32, 32, 32, 97, 112,
    112, 78, 97, 109, 101, 58, 32, 39, 91, 68, 69, 70, 65, 85, 76, 84, 93, 39, 10, 32, 32, 32, 32, 125,
    59, 10, 10, 32, 32, 32, 32, 97, 119, 97, 105, 116, 32, 102, 101, 116, 99, 104, 40, 39, 47, 99, 97, 108,
    108, 98, 97, 99, 107, 39, 44, 32, 123, 10, 32, 32, 32, 32, 32, 32, 109, 101, 116, 104, 111, 100, 58, 32,
    39, 80, 79, 83, 84, 39, 44, 10, 32, 32, 32, 32, 32, 32, 104, 101, 97, 100, 101, 114, 115, 58, 32, 123,
    32, 39, 67, 111, 110, 116, 101, 110, 116, 45, 84, 121, 112, 101, 39, 58, 32, 39, 97, 112, 112, 108, 105, 99,
    97, 116, 105, 111, 110, 47, 106, 115, 111, 110, 39, 32, 125, 44, 10, 32, 32, 32, 32, 32, 32, 98, 111, 100,
    121, 58, 32, 74, 83, 79, 78, 46, 115, 116, 114, 105, 110, 103, 105, 102, 121, 40, 117, 115, 101, 114, 68, 97,
    116, 97, 41, 10, 32, 32, 32, 32, 125, 41, 59, 10, 10, 32, 32, 32, 32, 115, 112, 105, 110, 110, 101, 114,
    69, 108, 46, 115, 116, 121, 108, 101, 46, 100, 105, 115, 112, 108, 97, 121, 32, 61, 32, 39, 110, 111, 110, 101,
    39, 59, 10, 32, 32, 32, 32, 115, 116, 97, 116, 117, 115, 69, 108, 46, 105, 110, 110, 101, 114, 72, 84, 77,
    76, 32, 61, 32, 39, 60, 115, 112, 97, 110, 32, 99, 108, 97, 115, 115, 61, 34, 115, 117, 99, 99, 101, 115,
    115, 34, 62, 38, 35, 49, 48, 48, 48, 51, 59, 32, 235, 161, 156, 234, 183, 184, 236, 157, 184, 32, 236, 153,
    132, 235, 163, 140, 33, 60, 47, 115, 112, 97, 110, 62, 60, 98, 114, 62, 60, 98, 114, 62, 236, 157, 180, 32,
    236, 176, 189, 236, 157, 132, 32, 235, 139, 171, 234, 179, 160, 32, 236, 149, 177, 236, 156, 188, 235, 161, 156, 32,
    235, 143, 140, 236, 149, 132, 234, 176, 128, 236, 132, 184, 236, 154, 148, 46, 39, 59, 10, 32, 32, 32, 32, 115,
    101, 116, 84, 105, 109, 101, 111, 117, 116, 40, 102, 117, 110, 99, 116, 105, 111, 110, 40, 41, 32, 123, 32, 119,
    105, 110, 100, 111, 119, 46, 99, 108, 111, 115, 101, 40, 41, 59, 32, 125, 44, 32, 50, 48, 48, 48, 41, 59,
    10, 32, 32, 125, 10, 10, 32, 32, 116, 114, 121, 32, 123, 10, 32, 32, 32, 32, 102, 105, 114, 101, 98, 97,
    115, 101, 46, 105, 110, 105, 116, 105, 97, 108, 105, 122, 101, 65, 112, 112, 40, 99, 111, 110, 102, 105, 103, 41,
    59, 10, 32, 32, 32, 32, 118, 97, 114, 32, 97, 117, 116, 104, 32, 61, 32, 102, 105, 114, 101, 98, 97, 115,
    101, 46, 97, 117, 116, 104, 40, 41, 59, 10, 32, 32, 32, 32, 118, 97, 114, 32, 112, 114, 111, 118, 105, 100,
    101, 114, 32, 61, 32, 110, 101, 119, 32, 102, 105, 114, 101, 98, 97, 115, 101, 46, 97, 117, 116, 104, 46, 71,
    111, 111, 103, 108, 101, 65, 117, 116, 104, 80, 114, 111, 118, 105, 100, 101, 114, 40, 41, 59, 10, 10, 32, 32,
    32, 32, 105, 102, 32, 40, 109, 111, 100, 101, 32, 61, 61, 61, 32, 39, 114, 101, 100, 105, 114, 101, 99, 116,
    39, 41, 32, 123, 10, 32, 32, 32, 32, 32, 32, 47, 47, 32, 235, 170, 168, 235, 176, 148, 236, 157, 188, 58,
    32, 115, 105, 103, 110, 73, 110, 87, 105, 116, 104, 82, 101, 100, 105, 114, 101, 99, 116, 32, 235, 176, 169, 236,
    139, 157, 10, 32, 32, 32, 32, 32, 32, 47, 47, 32, 235, 168, 188, 236, 160, 128, 32, 235, 166, 172, 235, 139,
    164, 236, 157, 180, 235, 160, 137, 237, 138, 184, 32, 234, 178, 176, 234, 179, 188, 234, 176, 128, 32, 236, 158, 136,
    235, 138, 148, 236, 167, 128, 32, 237, 153, 149, 236, 157, 184, 10, 32, 32, 32, 32, 32, 32, 115, 116, 97, 116,
    117, 115, 69, 108, 46, 116, 101, 120, 116, 67, 111, 110, 116, 101, 110, 116, 32, 61, 32, 39, 235, 161, 156, 234,
    183, 184, 236, 157, 184, 32, 236, 160, 149, 235, 179, 180, 235, 165, 188, 32, 237, 153, 149, 236, 157, 184, 237, 149,
    152, 235, 138, 148, 32, 236, 164, 145, 46, 46, 46, 39, 59, 10, 32, 32, 32, 32, 32, 32, 118, 97, 114, 32,
    114, 101, 115, 117, 108, 116, 32, 61, 32, 110, 117, 108, 108, 59, 10, 32, 32, 32, 32, 32, 32, 116, 114, 121,
    32, 123, 10, 32, 32, 32, 32, 32, 32, 32, 32, 114, 101, 115, 117, 108, 116, 32, 61, 32, 97, 119, 97, 105,
    116, 32, 97, 117, 116, 104, 46, 103, 101, 116, 82, 101, 100, 105, 114, 101, 99, 116, 82, 101, 115, 117, 108, 116,
    40, 41, 59, 10, 32, 32, 32, 32, 32, 32, 125, 32, 99, 97, 116, 99, 104, 40, 101, 41, 32, 123, 10, 32,
    32, 32, 32, 32, 32, 32, 32, 114, 101, 115, 117, 108, 116, 32, 61, 32, 110, 117, 108, 108, 59, 10, 32, 32,
    32, 32, 32, 32, 125, 10, 10, 32, 32, 32, 32, 32, 32, 105, 102, 32, 40, 114, 101, 115, 117, 108, 116, 32,
    38, 38, 32, 114, 101, 115, 117, 108, 116, 46, 117, 115, 101, 114, 41, 32, 123, 10, 32, 32, 32, 32, 32, 32,
    32, 32, 47, 47, 32, 235, 166, 172, 235, 139, 164, 236, 157, 180, 235, 160, 137, 237, 138, 184, 32, 237, 155, 132,
    32, 235, 161, 156, 234, 183, 184, 236, 157, 184, 32, 236, 132, 177, 234, 179, 181, 10, 32, 32, 32, 32, 32, 32,
    32, 32, 115, 116, 97, 116, 117, 115, 69, 108, 46, 116, 101, 120, 116, 67, 111, 110, 116, 101, 110, 116, 32, 61,
    32, 39, 236, 157, 184, 236, 166, 157, 32, 236, 160, 149, 235, 179, 180, 235, 165, 188, 32, 236, 149, 177, 236, 156,
    188, 235, 161, 156, 32, 236, 160, 132, 235, 139, 172, 237, 149, 152, 235, 138, 148, 32, 236, 164, 145, 46, 46, 46,
    39, 59, 10, 32, 32, 32, 32, 32, 32, 32, 32, 118, 97, 114, 32, 97, 99, 99, 101, 115, 115, 84, 111, 107,
    101, 110, 32, 61, 32, 97, 119, 97, 105, 116, 32, 114, 101, 115, 117, 108, 116, 46, 117, 115, 101, 114, 46, 103,
    101, 116, 73, 100, 84, 111, 107, 101, 110, 40, 116, 114, 117, 101, 41, 59, 10, 32, 32, 32, 32, 32, 32, 32,
    32, 97, 119, 97, 105, 116, 32, 115, 101, 110, 100, 67, 97, 108, 108, 98, 97, 99, 107, 40, 114, 101, 115, 117,
    108, 116, 46, 117, 115, 101, 114, 44, 32, 97, 99, 99, 101, 115, 115, 84, 111, 107, 101, 110, 41, 59, 10, 32,
    32, 32, 32, 32, 32, 125, 32, 101, 108, 115, 101, 32, 123, 10, 32, 32, 32, 32, 32, 32, 32, 32, 47, 47,
    32, 235, 166, 172, 235, 139, 164, 236, 157, 180, 235, 160, 137, 237, 138, 184, 32, 236, 139, 156, 236, 158, 145, 32,
    40, 71, 111, 111, 103, 108, 101, 32, 235, 161, 156, 234, 183, 184, 236, 157, 184, 32, 237, 142, 152, 236, 157, 180,
    236, 167, 128, 235, 161, 156, 32, 236, 157, 180, 235, 143, 153, 41, 10, 32, 32, 32, 32, 32, 32, 32, 32, 115,
    116, 97, 116, 117, 115, 69, 108, 46, 116, 101, 120, 116, 67, 111, 110, 116, 101, 110, 116, 32, 61, 32, 39, 71,
    111, 111, 103, 108, 101, 32, 235, 161, 156, 234, 183, 184, 236, 157, 184, 32, 237, 142, 152, 236, 157, 180, 236, 167,
    128, 235, 161, 156, 32, 236, 157, 180, 235, 143, 153, 32, 236, 164, 145, 46, 46, 46, 39, 59, 10, 32, 32, 32,
    32, 32, 32, 32, 32, 97, 119, 97, 105, 116, 32, 97, 117, 116, 104, 46, 115, 105, 103, 110, 73, 110, 87, 105,
    116, 104, 82, 101, 100, 105, 114, 101, 99, 116, 40, 112, 114, 111, 118, 105, 100, 101, 114, 41, 59, 10, 32, 32,
    32, 32, 32, 32, 32, 32, 47, 47, 32, 236, 157, 180, 237, 155, 132, 32, 71, 111, 111, 103, 108, 101, 32, 236,
    157, 184, 236, 166, 157, 32, 236, 153, 132, 235, 163, 140, 32, 236, 139, 156, 32, 236, 157, 180, 32, 237, 142, 152,
    236, 157, 180, 236, 167, 128, 235, 161, 156, 32, 235, 139, 164, 236, 139, 156, 32, 235, 143, 140, 236, 149, 132, 236,
    152, 180, 10, 32, 32, 32, 32, 32, 32, 125, 10, 10, 32, 32, 32, 32, 125, 32, 101, 108, 115, 101, 32, 123,
    10, 32, 32, 32, 32, 32, 32, 47, 47, 32, 235, 141, 176, 236, 138, 164, 237, 129, 172, 237, 134, 177, 58, 32,
    115, 105, 103, 110, 73, 110, 87, 105, 116, 104, 80, 111, 112, 117, 112, 32, 235, 176, 169, 236, 139, 157, 10, 32,
    32, 32, 32, 32, 32, 115, 116, 97, 116, 117, 115, 69, 108, 46, 116, 101, 120, 116, 67, 111, 110, 116, 101, 110,
    116, 32, 61, 32, 39, 237, 140, 157, 236, 151, 133, 32, 236, 176, 189, 236, 151, 144, 236, 132, 156, 32, 71, 111,
    111, 103, 108, 101, 32, 234, 179, 132, 236, 160, 149, 236, 157, 132, 32, 236, 132, 160, 237, 131, 157, 237, 149, 180,
    236, 163, 188, 236, 132, 184, 236, 154, 148, 39, 59, 10, 32, 32, 32, 32, 32, 32, 118, 97, 114, 32, 114, 101,
    115, 117, 108, 116, 32, 61, 32, 97, 119, 97, 105, 116, 32, 97, 117, 116, 104, 46, 115, 105, 103, 110, 73, 110,
    87, 105, 116, 104, 80, 111, 112, 117, 112, 40, 112, 114, 111, 118, 105, 100, 101, 114, 41, 59, 10, 32, 32, 32,
    32, 32, 32, 118, 97, 114, 32, 97, 99, 99, 101, 115, 115, 84, 111, 107, 101, 110, 32, 61, 32, 97, 119, 97,
    105, 116, 32, 114, 101, 115, 117, 108, 116, 46, 117, 115, 101, 114, 46, 103, 101, 116, 73, 100, 84, 111, 107, 101,
    110, 40, 116, 114, 117, 101, 41, 59, 10, 32, 32, 32, 32, 32, 32, 97, 119, 97, 105, 116, 32, 115, 101, 110,
    100, 67, 97, 108, 108, 98, 97, 99, 107, 40, 114, 101, 115, 117, 108, 116, 46, 117, 115, 101, 114, 44, 32, 97,
    99, 99, 101, 115, 115, 84, 111, 107, 101, 110, 41, 59, 10, 32, 32, 32, 32, 125, 10, 10, 32, 32, 125, 32,
    99, 97, 116, 99, 104, 32, 40, 101, 114, 114, 41, 32, 123, 10, 32, 32, 32, 32, 115, 112, 105, 110, 110, 101,
    114, 69, 108, 46, 115, 116, 121, 108, 101, 46, 100, 105, 115, 112, 108, 97, 121, 32, 61, 32, 39, 110, 111, 110,
    101, 39, 59, 10, 32, 32, 32, 32, 115, 116, 97, 116, 117, 115, 69, 108, 46, 116, 101, 120, 116, 67, 111, 110,
    116, 101, 110, 116, 32, 61, 32, 39, 39, 59, 10, 32, 32, 32, 32, 101, 114, 114, 111, 114, 69, 108, 46, 116,
    101, 120, 116, 67, 111, 110, 116, 101, 110, 116, 32, 61, 32, 39, 235, 161, 156, 234, 183, 184, 236, 157, 184, 32,
    236, 139, 164, 237, 140, 168, 58, 32, 39, 32, 43, 32, 40, 101, 114, 114, 46, 109, 101, 115, 115, 97, 103, 101,
    32, 124, 124, 32, 83, 116, 114, 105, 110, 103, 40, 101, 114, 114, 41, 41, 59, 10, 32, 32, 32, 32, 99, 111,
    110, 115, 111, 108, 101, 46, 101, 114, 114, 111, 114, 40, 101, 114, 114, 41, 59, 10, 32, 32, 125, 10, 125, 41,
    40, 41, 59, 10, 60, 47, 115, 99, 114, 105, 112, 116, 62, 10, 60, 47, 98, 111, 100, 121, 62, 10, 60, 47,
    104, 116, 109, 108, 62 >>

\* '{"ok":true}'
SUCCESS_HTML == <<123, 34, 111, 107, 34, 58, 116, 114, 117, 101, 125>>
\* '\r\n\r\n'
CRLFCRLF == <<13, 10, 13, 10>>
\* 'content-length:'
ContentLengthPrefix == <<99, 111, 110, 116, 101, 110, 116, 45, 108, 101, 110, 103, 116, 104, 58>>
\* 'OPTIONS'
OPTIONS == <<79, 80, 84, 73, 79, 78, 83>>
\* 'POST'
POST == <<80, 79, 83, 84>>
\* '/callback'
CallbackPrefix == <<47, 99, 97, 108, 108, 98, 97, 99, 107>>
\* '/favicon.ico'
FaviconPath == <<47, 102, 97, 118, 105, 99, 111, 110, 46, 105, 99, 111>>
\* '/'
RootPath == <<47>>
\* '204 No Content'
Status204 == <<50, 48, 52, 32, 78, 111, 32, 67, 111, 110, 116, 101, 110, 116>>
\* '200 OK'
Status200 == <<50, 48, 48, 32, 79, 75>>
\* 'text/plain'
TextPlain == <<116, 101, 120, 116, 47, 112, 108, 97, 105, 110>>
\* 'application/json'
ApplicationJson == <<97, 112, 112, 108, 105, 99, 97, 116, 105, 111, 110, 47, 106, 115, 111, 110>>
\* 'text/html'
TextHtml == <<116, 101, 120, 116, 47, 104, 116, 109, 108>>
\* '0', the unwrap_or default of the Content-Length value
ZeroStr == <<48>>

\* The pieces of the format string of send_response around its four arguments
\* 'HTTP/1.1 '
RespP1 == <<72, 84, 84, 80, 47, 49, 46, 49, 32>>
\* '\r\nContent-Type: '
RespP2 == <<13, 10, 67, 111, 110, 116, 101, 110, 116, 45, 84, 121, 112, 101, 58, 32>>
\* '; charset=utf-8\r\nContent-Length: '
RespP3 == <<
    59, 32, 99, 104, 97, 114, 115, 101, 116, 61, 117, 116, 102, 45, 56, 13, 10, 67, 111, 110, 116, 101, 110, 116,
    45, 76, 101, 110, 103, 116, 104, 58, 32 >>
\* '\r\nConnection: close\r\nAccess-Control-Allow-Origin: *\r\n
\*  Access-Control-Allow-Methods: POST, GET, OPTIONS\r\n
\*  Access-Control-Allow-Headers: Content-Type\r\n\r\n'
RespP4 == <<
    13, 10, 67, 111, 110, 110, 101, 99, 116, 105, 111, 110, 58, 32, 99, 108, 111, 115, 101, 13, 10, 65, 99, 99,
    101, 115, 115, 45, 67, 111, 110, 116, 114, 111, 108, 45, 65, 108, 108, 111, 119, 45, 79, 114, 105, 103, 105, 110,
    58, 32, 42, 13, 10, 65, 99, 99, 101, 115, 115, 45, 67, 111, 110, 116, 114, 111, 108, 45, 65, 108, 108, 111,
    119, 45, 77, 101, 116, 104, 111, 100, 115, 58, 32, 80, 79, 83, 84, 44, 32, 71, 69, 84, 44, 32, 79, 80,
    84, 73, 79, 78, 83, 13, 10, 65, 99, 99, 101, 115, 115, 45, 67, 111, 110, 116, 114, 111, 108, 45, 65, 108,
    108, 111, 119, 45, 72, 101, 97, 100, 101, 114, 115, 58, 32, 67, 111, 110, 116, 101, 110, 116, 45, 84, 121, 112,
    101, 13, 10, 13, 10 >>

\* for _ in 0..20
MaxIterations == 20
\* let mut tmp = [0u8; 4096]
TmpSize == 4096
\* if buf.len() > 65536
ReadCeiling == 65536
\* usize::MAX = 2^64 - 1 and 2^64, as decimal digits (TLC integers are 32 bit)
UsizeMax == <<1, 8, 4, 4, 6, 7, 4, 4, 0, 7, 3, 7, 0, 9, 5, 5, 1, 6, 1, 5>>
UsizeModulus == <<1, 8, 4, 4, 6, 7, 4, 4, 0, 7, 3, 7, 0, 9, 5, 5, 1, 6, 1, 6>>

----------------------------------------------------------------------------
\* str and byte-slice primitives of the standard library, as the source uses them

\* Option::None of a byte offset
None == -1

\* &s[a..b] and &s[a..] with 0-based byte offsets
Slice(s, a, b) == SubSeq(s, a + 1, b)
SliceFrom(s, a) == SubSeq(s, a + 1, Len(s))

\* str::starts_with
StartsWith(s, p) == Len(p) <= Len(s) /\ SubSeq(s, 1, Len(p)) = p

\* str::find of a non-empty pattern p: the byte offset of its first
\* occurrence, or None
Find(s, p) ==
    LET At(k) == s[k + 1] = p[1] /\ SubSeq(s, k + 1, k + Len(p)) = p
        K == {k \in 0..(Len(s) - Len(p)) : At(k)}
    IN IF K = {} THEN None ELSE CHOOSE k \in K : \A j \in K : k <= j

\* char::is_whitespace of the char with code point c: the 25 characters of
\* the Unicode property White_Space
IsWhitespace(c) ==
    \/ c \in 9..13
    \/ c \in {32, 133, 160, 5760, 8232, 8233, 8239, 8287, 12288}
    \/ c \in 8192..8202

\* str::to_lowercase, on the ASCII range (no non-ASCII character lowercases
\* to a letter of "content-length:")
ToLowercase(s) == [k \in 1..Len(s) |-> IF s[k] \in 65..90 THEN s[k] + 32 ELSE s[k]]

\* core::str::utf8_char_width
Utf8CharWidth(b) ==
    IF b < 128 THEN 1
    ELSE IF b \in 194..223 THEN 2
    ELSE IF b \in 224..239 THEN 3
    ELSE IF b \in 240..244 THEN 4
    ELSE 0

\* safe_get of Utf8Chunks: the byte at 0-based offset k, 0 past the end
SafeGet(s, k) == IF k < Len(s) THEN s[k + 1] ELSE 0

IsContinuation(b) == b \in 128..191

\* One step of Utf8Chunks at offset k: the number n of bytes consumed and
\* whether they are one well-formed scalar value; an ill-formed maximal
\* subpart of n bytes is replaced by one U+FFFD
Utf8Step(s, k) ==
    LET b0 == s[k + 1]
        b1 == SafeGet(s, k + 1)
        b2 == SafeGet(s, k + 2)
        b3 == SafeGet(s, k + 3)
        w == Utf8CharWidth(b0)
        Second3 == \/ b0 = 224 /\ b1 \in 160..191
                   \/ b0 \in 225..236 /\ b1 \in 128..191
                   \/ b0 = 237 /\ b1 \in 128..159
                   \/ b0 \in 238..239 /\ b1 \in 128..191
        Second4 == \/ b0 = 240 /\ b1 \in 144..191
                   \/ b0 \in 241..243 /\ b1 \in 128..191
                   \/ b0 = 244 /\ b1 \in 128..143
    IN  IF w = 1 THEN [n |-> 1, ok |-> TRUE]
        ELSE IF w = 2 THEN
            IF IsContinuation(b1) THEN [n |-> 2, ok |-> TRUE] ELSE [n |-> 1, ok |-> FALSE]
        ELSE IF w = 3 THEN
            IF ~Second3 THEN [n |-> 1, ok |-> FALSE]
            ELSE IF ~IsContinuation(b2) THEN [n |-> 2, ok |-> FALSE]
            ELSE [n |-> 3, ok |-> TRUE]
        ELSE IF w = 4 THEN
            IF ~Second4 THEN [n |-> 1, ok |-> FALSE]
            ELSE IF ~IsContinuation(b2) THEN [n |-> 2, ok |-> FALSE]
            ELSE IF ~IsContinuation(b3) THEN [n |-> 3, ok |-> FALSE]
            ELSE [n |-> 4, ok |-> TRUE]
        ELSE [n |-> 1, ok |-> FALSE]

\* U+FFFD REPLACEMENT CHARACTER in UTF-8
Replacement == <<239, 191, 189>>

RECURSIVE LossyFrom(_, _)
LossyFrom(s, k) ==
    IF k >= Len(s) THEN <<>>
    ELSE LET st == Utf8Step(s, k)
         IN (IF st.ok THEN SubSeq(s, k + 1, k + st.n) ELSE Replacement)
            \o LossyFrom(s, k + st.n)

\* String::from_utf8_lossy(&buf): buf itself when it is valid UTF-8
from_utf8_lossy(b) == IF \A k \in 1..Len(b) : b[k] < 128 THEN b ELSE LossyFrom(b, 0)

\* str::lines: split at "\n", a "\r" before the "\n" is dropped; the last
\* line needs no terminator (and then keeps a trailing "\r")
RECURSIVE Lines(_)
Lines(s) ==
    IF s = <<>> THEN <<>>
    ELSE LET nl == Find(s, <<10>>)
         IN IF nl = None THEN <<s>>
            ELSE LET l == Slice(s, 0, nl)
                     line == IF l # <<>> /\ l[Len(l)] = 13 THEN Slice(l, 0, Len(l) - 1) ELSE l
                 IN <<line>> \o Lines(SliceFrom(s, nl + 1))

\* the code point of the char of the str s that starts at byte k (1-based)
CodePoint(s, k) ==
    LET w == Utf8CharWidth(s[k])
    IN IF w = 2 THEN (s[k] - 192) * 64 + (s[k + 1] - 128)
       ELSE IF w = 3 THEN (s[k] - 224) * 4096 + (s[k + 1] - 128) * 64 + (s[k + 2] - 128)
       ELSE IF w = 4 THEN (s[k] - 240) * 262144 + (s[k + 1] - 128) * 4096
                          + (s[k + 2] - 128) * 64 + (s[k + 3] - 128)
       ELSE s[k]

\* a whitespace char of s starts at byte k
WhitespaceAt(s, k) ==
    /\ ~IsContinuation(s[k])
    /\ k + Utf8CharWidth(s[k]) - 1 <= Len(s)
    /\ IsWhitespace(CodePoint(s, k))

\* byte k of s belongs to a whitespace char (such a char has at most 3 bytes)
InWhitespace(s, k) ==
    \E j \in {k - 2, k - 1, k} :
        j >= 1 /\ WhitespaceAt(s, j) /\ k <= j + Utf8CharWidth(s[j]) - 1

\* str::split_whitespace: the non-empty maximal runs of non-whitespace chars
RECURSIVE SplitWhitespace(_)
SplitWhitespace(s) ==
    IF s = <<>> THEN <<>>
    ELSE IF WhitespaceAt(s, 1) THEN SplitWhitespace(SubSeq(s, 1 + Utf8CharWidth(s[1]), Len(s)))
    ELSE LET W == {k \in 1..Len(s) : WhitespaceAt(s, k)}
             e == IF W = {} THEN Len(s) + 1 ELSE CHOOSE k \in W : \A j \in W : k <= j
         IN <<SubSeq(s, 1, e - 1)>> \o SplitWhitespace(SubSeq(s, e, Len(s)))

\* str::trim: without the whitespace chars at its start and at its end
Trim(s) ==
    LET N == {k \in 1..Len(s) : ~InWhitespace(s, k)}
    IN IF N = {} THEN <<>>
       ELSE SubSeq(s, CHOOSE k \in N : \A j \in N : k <= j,
                      CHOOSE k \in N : \A j \in N : k >= j)

\* Option<&str>: <<>> is None, <<x>> is Some(x)
Some(x) == <<x>>
NoStr == <<>>

\* s.split(':').nth(1): the text between the first and the second ':' (or the
\* end), None when s holds no ':'
SplitColonNth1(s) ==
    LET c == Find(s, <<58>>)
    IN IF c = None THEN NoStr
       ELSE LET rest == SliceFrom(s, c + 1)
                d == Find(rest, <<58>>)
            IN Some(IF d = None THEN rest ELSE Slice(rest, 0, d))

----------------------------------------------------------------------------
\* usize arithmetic.  A usize is a sequence of decimal digits, most
\* significant first, without leading zeros (0 is <<>>).

RECURSIVE DecNorm(_)
DecNorm(d) == IF d # <<>> /\ d[1] = 0 THEN DecNorm(Tail(d)) ELSE d

RECURSIVE DecOf(_)
DecOf(n) == IF n = 0 THEN <<>> ELSE DecOf(n \div 10) \o <<n % 10>>

\* a < b, for normalised a and b
DecLess(a, b) ==
    \/ Len(a) < Len(b)
    \/ /\ Len(a) = Len(b)
       /\ \E k \in 1..Len(a) : a[k] < b[k] /\ \A j \in 1..(k - 1) : a[j] = b[j]

Front(d) == SubSeq(d, 1, Len(d) - 1)
LastDigit(d) == IF d = <<>> THEN 0 ELSE d[Len(d)]

RECURSIVE DecAddC(_, _, _)
DecAddC(a, b, c) ==
    IF a = <<>> /\ b = <<>> THEN (IF c = 0 THEN <<>> ELSE <<c>>)
    ELSE LET t == LastDigit(a) + LastDigit(b) + c
         IN DecAddC(Front(a), Front(b), t \div 10) \o <<t % 10>>

\* a + b in unbounded arithmetic
DecAdd(a, b) == DecNorm(DecAddC(a, b, 0))

RECURSIVE DecSubB(_, _, _)
DecSubB(a, b, c) ==
    IF a = <<>> THEN <<>>
    ELSE LET t == LastDigit(a) - LastDigit(b) - c
         IN DecSubB(Front(a), Front(b), IF t < 0 THEN 1 ELSE 0)
            \o <<IF t < 0 THEN t + 10 ELSE t>>

\* a - b, for a >= b
DecSub(a, b) == DecNorm(DecSubB(a, b, 0))

\* the value of a usize known to be small (a buffer length, an offset)
RECURSIVE DecVal(_)
DecVal(d) == IF d = <<>> THEN 0 ELSE 10 * DecVal(Front(d)) + d[Len(d)]

\* str::parse::<usize>: an optional '+', then one or more ASCII digits, the
\* value at most usize::MAX; anything else (empty, '-', a letter, overflow)
\* is Err
ParseUsize(s) ==
    LET digits == IF s # <<>> /\ s[1] = 43 THEN Tail(s) ELSE s
        val == DecNorm([k \in 1..Len(digits) |-> digits[k] - 48])
    IN IF digits = <<>> \/ \E k \in 1..Len(digits) : digits[k] \notin 48..57
       THEN [ok |-> FALSE, val |-> <<>>]
       ELSE IF DecLess(UsizeMax, val) THEN [ok |-> FALSE, val |-> <<>>]
       ELSE [ok |-> TRUE, val |-> val]

\* a + b on usize: the sum and whether it exceeded usize::MAX; wrapped is
\* the sum modulo 2^64
UsizeAdd(a, b) ==
    LET sum == DecAdd(a, b)
        over == DecLess(UsizeMax, sum)
    IN [overflow |-> over, value |-> IF over THEN DecSub(sum, UsizeModulus) ELSE sum]

----------------------------------------------------------------------------
\* read_request: what the loop does after buf.extend_from_slice(&tmp[..n])

\* headers.lines().find(|l| l.to_lowercase().starts_with("content-length:")):
\* the first such line, None when there is none
ContentLengthLine(headers) ==
    LET ls == Lines(headers)
        M == {k \in 1..Len(ls) : StartsWith(ToLowercase(ls[k]), ContentLengthPrefix)}
    IN IF M = {} THEN NoStr ELSE Some(ls[CHOOSE k \in M : \A j \in M : k <= j])

\* cl_line.split(':').nth(1).unwrap_or("0").trim().parse::<usize>()
ContentLength(cl_line) ==
    LET v == SplitColonNth1(cl_line)
    IN ParseUsize(Trim(IF v = NoStr THEN ZeroStr ELSE v[1]))

\* The outcome of one Ok(n) arm on the extended buffer b:
\*   "break"    leave the loop, "continue" read again,
\*   "overflow" body_start + cl exceeds usize::MAX; wrapped is then what the
\*              comparison does when the addition wraps
AfterRead(b) ==
    LET s == from_utf8_lossy(b)
        header_end == Find(s, CRLFCRLF)
    IN IF header_end # None THEN
           LET headers == Slice(s, 0, header_end)
               cl_line == ContentLengthLine(headers)
               cl == IF cl_line = NoStr THEN [ok |-> FALSE, val |-> <<>>]
                     ELSE ContentLength(cl_line[1])
               body_start == header_end + 4
               need == UsizeAdd(DecOf(body_start), cl.val)
               reached == ~DecLess(DecOf(Len(b)), need.value)
           IN IF cl_line # NoStr /\ cl.ok THEN
                  [kind |-> IF need.overflow THEN "overflow"
                            ELSE IF reached THEN "break" ELSE "continue",
                   wrapped |-> IF reached THEN "break" ELSE "continue"]
              ELSE [kind |-> "break", wrapped |-> "break"]
       ELSE IF Len(b) > ReadCeiling THEN [kind |-> "break", wrapped |-> "break"]
       ELSE [kind |-> "continue", wrapped |-> "continue"]

----------------------------------------------------------------------------
\* the request line and the routes of the accept loop

\* request.lines().next().unwrap_or("")
first_line(req) == LET ls == Lines(req) IN IF ls = <<>> THEN <<>> ELSE ls[1]

\* first_line.split_whitespace().next().unwrap_or("")
method(req) ==
    LET ws == SplitWhitespace(first_line(req)) IN IF Len(ws) >= 1 THEN ws[1] ELSE <<>>

\* first_line.split_whitespace().nth(1).unwrap_or("/")
path(req) ==
    LET ws == SplitWhitespace(first_line(req)) IN IF Len(ws) >= 2 THEN ws[2] ELSE RootPath

\* Route without the method test of the callback branch
Route_AnyMethod(m, p) ==
    IF m = OPTIONS THEN "preflight"
    ELSE IF StartsWith(p, CallbackPrefix) THEN "callback"
    ELSE IF p = FaviconPath THEN "favicon"
    ELSE "login"

\* Route without the preflight branch
Route_NoPreflight(m, p) ==
    IF m = POST /\ StartsWith(p, CallbackPrefix) THEN "callback"
    ELSE IF p = FaviconPath THEN "favicon"
    ELSE "login"

\* Route without the favicon branch
Route_NoFavicon(m, p) ==
    IF m = OPTIONS THEN "preflight"
    ELSE IF m = POST /\ StartsWith(p, CallbackPrefix) THEN "callback"
    ELSE "login"

\* Route with the favicon path matched by prefix
Route_FaviconPrefix(m, p) ==
    IF m = OPTIONS THEN "preflight"
    ELSE IF m = POST /\ StartsWith(p, CallbackPrefix) THEN "callback"
    ELSE IF StartsWith(p, FaviconPath) THEN "favicon"
    ELSE "login"

\* Route without the path test of the callback branch
Route_PostAny(m, p) ==
    IF m = OPTIONS THEN "preflight"
    ELSE IF m = POST THEN "callback"
    ELSE IF p = FaviconPath THEN "favicon"
    ELSE "login"

\* the if / else-if chain of the loop body, in its order
Route(m, p) ==
    IF m = OPTIONS THEN "preflight"
    ELSE IF m = POST /\ StartsWith(p, CallbackPrefix) THEN "callback"
    ELSE IF p = FaviconPath THEN "favicon"
    ELSE "login"

\* the body handed to emit: the text after the first "\r\n\r\n", else empty
body(req) ==
    LET pos == Find(req, CRLFCRLF)
    IN IF pos # None THEN SliceFrom(req, pos + 4) ELSE <<>>

\* {} of a usize in format!: its decimal digits ("0" for zero)
FormatUsize(n) == IF n = 0 THEN <<48>> ELSE [k \in 1..Len(DecOf(n)) |-> DecOf(n)[k] + 48]

\* s.chars().count(): the length of the str in characters
StrLen_Chars(s) == Cardinality({k \in 1..Len(s) : ~IsContinuation(s[k])})

\* body.len(): the length of the str in bytes
StrLen(s) == Len(s)

\* the bytes send_response hands to write_all
send_response(status, content_type, b) ==
    RespP1 \o status \o RespP2 \o content_type \o RespP3
           \o FormatUsize(StrLen(b)) \o RespP4 \o b

----------------------------------------------------------------------------
\* The environment: the ports the OS may assign and what a peer may send.
\* A connection is the sequence of byte segments its reads return, one
\* segment per stream.read, and what follows them: "eof" (the peer closed,
\* read returns Ok(0)), "err" (read returns Err) or "open" (the peer waits
\* and read blocks).

\* accept() calls that may fail in one session
MaxAcceptErrs == 2
\* longest callback body drawn from BodyBytes
MaxBody == 2

Ports == {49152, 65535}

\* '{' and the two bytes of U+00E9, each of which alone is no UTF-8 text
BodyBytes == {123, 195, 169}

RECURSIVE SeqsUpTo(_, _)
SeqsUpTo(S, n) ==
    IF n = 0 THEN {<<>>}
    ELSE LET shorter == SeqsUpTo(S, n - 1)
         IN shorter \cup {Append(s, x) : s \in shorter, x \in S}

Bodies == SeqsUpTo(BodyBytes, MaxBody)

\* 'GET / HTTP/1.1\r\nHost: 127.0.0.1\r\n\r\n'
ReqGetRoot == <<
    71, 69, 84, 32, 47, 32, 72, 84, 84, 80, 47, 49, 46, 49, 13, 10, 72, 111, 115, 116, 58, 32, 49, 50,
    55, 46, 48, 46, 48, 46, 49, 13, 10, 13, 10 >>
\* 'GET /login?mode=popup HTTP/1.1\r\n\r\n'
ReqGetLogin == <<
    71, 69, 84, 32, 47, 108, 111, 103, 105, 110, 63, 109, 111, 100, 101, 61, 112, 111, 112, 117, 112, 32, 72, 84,
    84, 80, 47, 49, 46, 49, 13, 10, 13, 10 >>
\* 'GET /anything-unmatched HTTP/1.1\r\n\r\n'
ReqGetUnmatched == <<
    71, 69, 84, 32, 47, 97, 110, 121, 116, 104, 105, 110, 103, 45, 117, 110, 109, 97, 116, 99, 104, 101, 100, 32,
    72, 84, 84, 80, 47, 49, 46, 49, 13, 10, 13, 10 >>
\* 'GET /favicon.ico HTTP/1.1\r\n\r\n'
ReqGetFavicon == <<
    71, 69, 84, 32, 47, 102, 97, 118, 105, 99, 111, 110, 46, 105, 99, 111, 32, 72, 84, 84, 80, 47, 49, 46,
    49, 13, 10, 13, 10 >>
\* U+2003 EM SPACE, 'GET', U+0085 NEXT LINE, '/favicon.ico HTTP/1.1\r\n\r\n':
\* White_Space characters outside ASCII before the method and the path
ReqEmSpaceFavicon == <<
    226, 128, 131, 71, 69, 84, 194, 133, 47, 102, 97, 118, 105, 99, 111, 110, 46, 105, 99, 111, 32, 72, 84, 84,
    80, 47, 49, 46, 49, 13, 10, 13, 10 >>
\* 'GET /favicon.ico?v=1 HTTP/1.1\r\n\r\n'
ReqGetFaviconQuery == <<
    71, 69, 84, 32, 47, 102, 97, 118, 105, 99, 111, 110, 46, 105, 99, 111, 63, 118, 61, 49, 32, 72, 84, 84,
    80, 47, 49, 46, 49, 13, 10, 13, 10 >>
\* 'GET /callback HTTP/1.1\r\n\r\n'
ReqGetCallback == <<
    71, 69, 84, 32, 47, 99, 97, 108, 108, 98, 97, 99, 107, 32, 72, 84, 84, 80, 47, 49, 46, 49, 13, 10,
    13, 10 >>
\* 'POST /other HTTP/1.1\r\nContent-Length: 0\r\n\r\n'
ReqPostOther == <<
    80, 79, 83, 84, 32, 47, 111, 116, 104, 101, 114, 32, 72, 84, 84, 80, 47, 49, 46, 49, 13, 10, 67, 111,
    110, 116, 101, 110, 116, 45, 76, 101, 110, 103, 116, 104, 58, 32, 48, 13, 10, 13, 10 >>
\* 'post /callback HTTP/1.1\r\n\r\n'
ReqLowerPost == <<
    112, 111, 115, 116, 32, 47, 99, 97, 108, 108, 98, 97, 99, 107, 32, 72, 84, 84, 80, 47, 49, 46, 49, 13,
    10, 13, 10 >>
\* 'OPTIONS /callback HTTP/1.1\r\nAccess-Control-Request-Method: POST\r\n\r\n'
ReqOptionsCallback == <<
    79, 80, 84, 73, 79, 78, 83, 32, 47, 99, 97, 108, 108, 98, 97, 99, 107, 32, 72, 84, 84, 80, 47, 49,
    46, 49, 13, 10, 65, 99, 99, 101, 115, 115, 45, 67, 111, 110, 116, 114, 111, 108, 45, 82, 101, 113, 117, 101,
    115, 116, 45, 77, 101, 116, 104, 111, 100, 58, 32, 80, 79, 83, 84, 13, 10, 13, 10 >>
\* 'OPTIONS * HTTP/1.1\r\n\r\n'
ReqOptionsStar == <<79, 80, 84, 73, 79, 78, 83, 32, 42, 32, 72, 84, 84, 80, 47, 49, 46, 49, 13, 10, 13, 10>>
\* 'GET\r\n\r\n'
ReqMethodOnly == <<71, 69, 84, 13, 10, 13, 10>>
\* 'OPTIONS\r\n\r\n'
ReqOptionsOnly == <<79, 80, 84, 73, 79, 78, 83, 13, 10, 13, 10>>
\* 'POST\r\n\r\n'
ReqPostOnly == <<80, 79, 83, 84, 13, 10, 13, 10>>
\* '\r\n\r\n'
ReqBlankLine == <<13, 10, 13, 10>>
\* 'GET /fav'
ReqPartial == <<71, 69, 84, 32, 47, 102, 97, 118>>
\* 'OPTIONS / HTTP/1.1\r\nContent-Length: 18446744073709551615\r\n\r\n'
ReqOptionsHuge == <<
    79, 80, 84, 73, 79, 78, 83, 32, 47, 32, 72, 84, 84, 80, 47, 49, 46, 49, 13, 10, 67, 111, 110, 116,
    101, 110, 116, 45, 76, 101, 110, 103, 116, 104, 58, 32, 49, 56, 52, 52, 54, 55, 52, 52, 48, 55, 51, 55,
    48, 57, 53, 53, 49, 54, 49, 53, 13, 10, 13, 10 >>
\* 'POST /callback HTTP/1.1\r\nContent-Length: '
CallbackHead == <<
    80, 79, 83, 84, 32, 47, 99, 97, 108, 108, 98, 97, 99, 107, 32, 72, 84, 84, 80, 47, 49, 46, 49, 13,
    10, 67, 111, 110, 116, 101, 110, 116, 45, 76, 101, 110, 103, 116, 104, 58, 32 >>
\* 'POST /callback?state=1 HTTP/1.1\r\ncontent-length:13\r\n\r\n'
CallbackQueryHead == <<
    80, 79, 83, 84, 32, 47, 99, 97, 108, 108, 98, 97, 99, 107, 63, 115, 116, 97, 116, 101, 61, 49, 32, 72,
    84, 84, 80, 47, 49, 46, 49, 13, 10, 99, 111, 110, 116, 101, 110, 116, 45, 108, 101, 110, 103, 116, 104, 58,
    49, 51, 13, 10, 13, 10 >>
\* '{"uid":"abc"}'
UidBody == <<123, 34, 117, 105, 100, 34, 58, 34, 97, 98, 99, 34, 125>>

\* the header block of a callback POST that declares the length of body b
CallbackHeaders(b) == CallbackHead \o FormatUsize(Len(b)) \o CRLFCRLF

Conn(segs, end) == [segs |-> segs, end |-> end]

\* requests without a body, delivered in one read by a peer that then waits
PlainRequests ==
    { ReqGetRoot, ReqGetLogin, ReqGetUnmatched, ReqGetFavicon, ReqGetFaviconQuery,
      ReqGetCallback, ReqPostOther, ReqLowerPost, ReqOptionsCallback, ReqOptionsStar,
      ReqMethodOnly, ReqOptionsHuge, ReqOptionsOnly, ReqPostOnly, ReqBlankLine,
      ReqEmSpaceFavicon }

\* a callback POST with its whole body: in one read, or the header block in
\* one read and the body, cut after h bytes, in the next ones
CallbackConns ==
    {Conn(<<CallbackHeaders(b) \o b>>, "open") : b \in Bodies}
    \cup UNION {{Conn(<<CallbackHeaders(b) \o SubSeq(b, 1, h), SubSeq(b, h + 1, Len(b))>>,
                       "open") : h \in 0..(Len(b) - 1)} : b \in Bodies}
    \cup {Conn(<<CallbackQueryHead, UidBody>>, "open"),
          Conn(<<CallbackQueryHead \o UidBody>>, "eof")}

\* 'POST /callback HTTP/1.1\r\n\r\n'
CallbackBare == <<
    80, 79, 83, 84, 32, 47, 99, 97, 108, 108, 98, 97, 99, 107, 32, 72, 84, 84, 80, 47, 49, 46, 49, 13,
    10, 13, 10 >>
\* 'POST /callback HTTP/1.1\r\n'
CallbackLineOnly == <<
    80, 79, 83, 84, 32, 47, 99, 97, 108, 108, 98, 97, 99, 107, 32, 72, 84, 84, 80, 47, 49, 46, 49, 13,
    10 >>

\* 'POST', U+00A0 NO-BREAK SPACE, '/callback HTTP/1.1\r\n\r\n'
ReqNbspCallback == <<
    80, 79, 83, 84, 194, 160, 47, 99, 97, 108, 108, 98, 97, 99, 107, 32, 72, 84, 84, 80, 47, 49, 46, 49,
    13, 10, 13, 10 >>

\* U+00A0 NO-BREAK SPACE, '3': a Content-Length value that trim makes a number
NbspThree == <<194, 160, 51>>

\* requests with White_Space characters outside ASCII: a callback POST whose
\* method and path U+00A0 separates; a declared length of U+00A0 '3' with two
\* body bytes in the first read and the third in the next, or never
NbspConns ==
    {Conn(<<ReqNbspCallback \o UidBody>>, "open"),
     Conn(<<CallbackHead \o NbspThree \o CRLFCRLF \o <<123, 32>>, <<125>>>>, "open"),
     Conn(<<CallbackHead \o NbspThree \o CRLFCRLF \o <<123, 32>>>>, "open")}

\* callback POSTs whose body is not the declared one: 5 of the 13 declared
\* bytes, after which the peer waits, closes or the read fails; the declared
\* bytes and two more in the same read; no Content-Length, or the value
\* 'abc', with the body in the same or in a later read; no header terminator;
\* the first byte of a declared two-byte character, after which the peer closes
OddCallbackConns ==
    {Conn(<<CallbackQueryHead \o SubSeq(UidBody, 1, 5)>>, e) : e \in {"open", "eof", "err"}}
    \cup {Conn(<<CallbackQueryHead \o UidBody \o <<13, 10>>>>, "open"),
          Conn(<<CallbackBare \o UidBody>>, "open"),
          Conn(<<CallbackBare, UidBody>>, "open"),
          Conn(<<CallbackHead \o <<97, 98, 99>> \o CRLFCRLF \o UidBody>>, "open"),
          Conn(<<CallbackLineOnly>>, "eof"),
          Conn(<<CallbackLineOnly>>, "err"),
          Conn(<<CallbackHeaders(<<195, 169>>) \o <<195>>>>, "eof")}

Connections ==
    {Conn(<<r>>, "open") : r \in PlainRequests}
    \cup CallbackConns
    \cup OddCallbackConns
    \cup NbspConns
    \cup {Conn(<<>>, "eof"), Conn(<<ReqPartial>>, "err"), Conn(<<ReqPartial>>, "eof")}

NoConn == Conn(<<>>, "none")

----------------------------------------------------------------------------
\* start_oauth_server, the caller's side

NoPort == 0

Init ==
    /\ caller = "call"
    /\ ret = [kind |-> "none", port |-> NoPort]
    /\ listener = [state |-> "unbound", port |-> NoPort]
    /\ pc = "none"
    /\ i = 0
    /\ accepted = 0
    /\ acceptErrs = 0
    /\ stream = NoConn
    /\ buf = <<>>
    /\ reads = 0
    /\ request = <<>>
    /\ written = <<>>
    /\ responses = 0
    /\ emitted = <<>>

workerVars == << pc, i, accepted, acceptErrs, stream, buf, reads, request, written,
                 responses, emitted >>

\* TcpListener::bind("127.0.0.1:0") returned Ok: the OS chose the port
Bind ==
    /\ caller = "call"
    /\ \E p \in Ports : listener' = [state |-> "listening", port |-> p]
    /\ caller' = "bound"
    /\ UNCHANGED << ret, workerVars >>

\* bind returned Err: `?` returns Err(e.to_string())
BindErr ==
    /\ caller = "call"
    /\ ret' = [kind |-> "Err", port |-> NoPort]
    /\ caller' = "returned"
    /\ UNCHANGED << listener, workerVars >>

\* listener.local_addr() returned Ok
LocalAddr ==
    /\ caller = "bound"
    /\ caller' = "addr"
    /\ UNCHANGED << ret, listener, workerVars >>

\* LocalAddrErr had the worker been spawned before the port was read
LocalAddrErr_AfterSpawn ==
    /\ caller = "bound"
    /\ ret' = [kind |-> "Err", port |-> NoPort]
    /\ pc' = "for"
    /\ caller' = "returned"
    /\ UNCHANGED << listener, i, accepted, acceptErrs, stream, buf, reads, request,
                    written, responses, emitted >>

\* local_addr returned Err: `?` returns Err, the listener is dropped
LocalAddrErr ==
    /\ caller = "bound"
    /\ ret' = [kind |-> "Err", port |-> NoPort]
    /\ listener' = [listener EXCEPT !.state = "closed"]
    /\ caller' = "returned"
    /\ UNCHANGED workerVars

\* std::thread::spawn: the worker starts at the head of its for loop
Spawn ==
    /\ caller = "addr"
    /\ caller' = "spawned"
    /\ pc' = "for"
    /\ UNCHANGED << ret, listener, i, accepted, acceptErrs, stream, buf, reads,
                    request, written, responses, emitted >>

\* std::thread::spawn panics when the OS creates no thread ("failed to
\* spawn thread"): start_oauth_server unwinds and returns nothing, the
\* closure and the listener it owns are dropped, no worker exists
SpawnPanic ==
    /\ caller = "addr"
    /\ caller' = "panicked"
    /\ listener' = [listener EXCEPT !.state = "closed"]
    /\ UNCHANGED << ret, workerVars >>

\* Ok(port)
Return ==
    /\ caller = "spawned"
    /\ ret' = [kind |-> "Ok", port |-> listener.port]
    /\ caller' = "returned"
    /\ UNCHANGED << listener, workerVars >>

----------------------------------------------------------------------------
\* the worker: for _ in 0..20 { ... }

callerVars == << caller, ret >>

\* the worker's closure returns (or unwinds): the listener it owns is dropped
DropListener == listener' = [listener EXCEPT !.state = "closed"]

\* ForLoop over the inclusive range 0..=20
ForLoop_Inclusive ==
    /\ pc = "for"
    /\ IF i <= MaxIterations
       THEN /\ i' = i + 1
            /\ pc' = "accept"
            /\ UNCHANGED listener
       ELSE /\ pc' = "done"
            /\ DropListener
            /\ UNCHANGED i
    /\ stream' = NoConn
    /\ buf' = <<>>
    /\ reads' = 0
    /\ request' = <<>>
    /\ written' = <<>>
    /\ UNCHANGED << callerVars, accepted, acceptErrs, responses, emitted >>

\* the head of the for loop: the next value of 0..20, or the end of the
\* loop and of the closure.  The stream of the iteration before is dropped.
ForLoop ==
    /\ pc = "for"
    /\ IF i < MaxIterations
       THEN /\ i' = i + 1
            /\ pc' = "accept"
            /\ UNCHANGED listener
       ELSE /\ pc' = "done"
            /\ DropListener
            /\ UNCHANGED i
    /\ stream' = NoConn
    /\ buf' = <<>>
    /\ reads' = 0
    /\ request' = <<>>
    /\ written' = <<>>
    /\ UNCHANGED << callerVars, accepted, acceptErrs, responses, emitted >>

\* listener.accept() returned Ok((stream, _)): read_request starts
AcceptOk ==
    /\ pc = "accept"
    /\ \E c \in Connections : stream' = c
    /\ accepted' = accepted + 1
    /\ pc' = "read"
    /\ UNCHANGED << callerVars, listener, i, acceptErrs, buf, reads, request, written,
                    responses, emitted >>

\* AcceptErr with the error ending the loop
AcceptErr_Break ==
    /\ pc = "accept"
    /\ acceptErrs < MaxAcceptErrs
    /\ acceptErrs' = acceptErrs + 1
    /\ pc' = "done"
    /\ DropListener
    /\ UNCHANGED << callerVars, i, accepted, stream, buf, reads, request, written,
                    responses, emitted >>

\* listener.accept() returned Err: the if let does not match
AcceptErr ==
    /\ pc = "accept"
    /\ acceptErrs < MaxAcceptErrs
    /\ acceptErrs' = acceptErrs + 1
    /\ pc' = "for"
    /\ UNCHANGED << callerVars, listener, i, accepted, stream, buf, reads, request,
                    written, responses, emitted >>

\* the Vec<u8> made of the slices ss, in order
RECURSIVE Concat(_)
Concat(ss) == IF ss = <<>> THEN <<>> ELSE Concat(Front(ss)) \o ss[Len(ss)]

\* read_request returns String::from_utf8_lossy(&buf).to_string()
ReadReturns(b) ==
    /\ request' = from_utf8_lossy(b)
    /\ pc' = "dispatch"

\* stream.read(&mut tmp) returned Ok(n), n > 0, and body_start + cl, if it is
\* computed, stays in range or wraps
ReadOk ==
    /\ pc = "read"
    /\ stream.segs # <<>>
    /\ Len(Head(stream.segs)) \in 1..TmpSize
    /\ LET b == Concat(buf) \o Head(stream.segs)
           r == AfterRead(b)
       IN /\ buf' = Append(buf, Head(stream.segs))
          /\ IF r.wrapped = "break"
             THEN ReadReturns(b)
             ELSE UNCHANGED << pc, request >>
    /\ stream' = [stream EXCEPT !.segs = Tail(stream.segs)]
    /\ reads' = reads + 1
    /\ UNCHANGED << callerVars, listener, i, accepted, acceptErrs, written, responses,
                    emitted >>

\* the same read in a build with overflow checks, when body_start + cl
\* exceeds usize::MAX: the worker thread panics and unwinds
ReadOverflowPanic ==
    /\ pc = "read"
    /\ stream.segs # <<>>
    /\ Len(Head(stream.segs)) \in 1..TmpSize
    /\ AfterRead(Concat(buf) \o Head(stream.segs)).kind = "overflow"
    /\ buf' = Append(buf, Head(stream.segs))
    /\ stream' = [stream EXCEPT !.segs = Tail(stream.segs)]
    /\ reads' = reads + 1
    /\ pc' = "panicked"
    /\ DropListener
    /\ UNCHANGED << callerVars, i, accepted, acceptErrs, request, written, responses,
                    emitted >>

\* stream.read returned Ok(0)
ReadEof ==
    /\ pc = "read"
    /\ stream.segs = <<>>
    /\ stream.end = "eof"
    /\ ReadReturns(Concat(buf))
    /\ reads' = reads + 1
    /\ UNCHANGED << callerVars, listener, i, accepted, acceptErrs, stream, buf, written,
                    responses, emitted >>

\* stream.read returned Err(_)
ReadErr ==
    /\ pc = "read"
    /\ stream.segs = <<>>
    /\ stream.end = "err"
    /\ ReadReturns(Concat(buf))
    /\ reads' = reads + 1
    /\ UNCHANGED << callerVars, listener, i, accepted, acceptErrs, stream, buf, written,
                    responses, emitted >>

\* the peer, having sent all it had to send, closes the connection while the
\* worker waits in stream.read: the read will return Ok(0)
PeerClose ==
    /\ pc = "read"
    /\ stream.segs = <<>>
    /\ stream.end = "open"
    /\ stream' = [stream EXCEPT !.end = "eof"]
    /\ UNCHANGED << callerVars, listener, pc, i, accepted, acceptErrs, buf, reads, request,
                    written, responses, emitted >>

\* send_response(&mut stream, ...): the results of write_all and flush are
\* discarded; written is what write_all was given
Respond(status, content_type, b) ==
    /\ written' = written \o send_response(status, content_type, b)
    /\ responses' = responses + 1

\* if method == "OPTIONS" { send_response(204); continue; }
Preflight ==
    /\ pc = "dispatch"
    /\ Route(method(request), path(request)) = "preflight"
    /\ Respond(Status204, TextPlain, <<>>)
    /\ pc' = "for"
    /\ UNCHANGED << callerVars, listener, i, accepted, acceptErrs, stream, buf, reads,
                    request, emitted >>

\* CallbackAck with the emit placed before send_response
CallbackAck_EmitFirst ==
    /\ pc = "dispatch"
    /\ Route(method(request), path(request)) = "callback"
    /\ emitted' = Append(emitted, [event |-> "oauth-callback", payload |-> body(request)])
    /\ pc' = "emit"
    /\ UNCHANGED << callerVars, listener, i, accepted, acceptErrs, stream, buf, reads,
                    request, written, responses >>

\* method == "POST" && path.starts_with("/callback"): the acknowledgement
CallbackAck ==
    /\ pc = "dispatch"
    /\ Route(method(request), path(request)) = "callback"
    /\ Respond(Status200, ApplicationJson, SUCCESS_HTML)
    /\ pc' = "emit"
    /\ UNCHANGED << callerVars, listener, i, accepted, acceptErrs, stream, buf, reads,
                    request, emitted >>

\* CallbackEmit without the break
CallbackEmit_NoBreak ==
    /\ pc = "emit"
    /\ emitted' = Append(emitted, [event |-> "oauth-callback", payload |-> body(request)])
    /\ pc' = "for"
    /\ UNCHANGED << callerVars, listener, i, accepted, acceptErrs, stream, buf, reads,
                    request, written, responses >>

\* let _ = app_handle.emit("oauth-callback", body); break;
\* the loop and the closure end, the listener is dropped
CallbackEmit ==
    /\ pc = "emit"
    /\ emitted' = Append(emitted, [event |-> "oauth-callback", payload |-> body(request)])
    /\ pc' = "done"
    /\ DropListener
    /\ UNCHANGED << callerVars, i, accepted, acceptErrs, stream, buf, reads, request,
                    written, responses >>

\* else if path == "/favicon.ico"
Favicon ==
    /\ pc = "dispatch"
    /\ Route(method(request), path(request)) = "favicon"
    /\ Respond(Status204, TextPlain, <<>>)
    /\ pc' = "for"
    /\ UNCHANGED << callerVars, listener, i, accepted, acceptErrs, stream, buf, reads,
                    request, emitted >>

\* else: the login page
LoginPage ==
    /\ pc = "dispatch"
    /\ Route(method(request), path(request)) = "login"
    /\ Respond(Status200, TextHtml, LOGIN_HTML)
    /\ pc' = "for"
    /\ UNCHANGED << callerVars, listener, i, accepted, acceptErrs, stream, buf, reads,
                    request, emitted >>

Next ==
    \/ Bind \/ BindErr \/ LocalAddr \/ LocalAddrErr \/ Spawn \/ SpawnPanic \/ Return
    \/ ForLoop \/ AcceptOk \/ AcceptErr
    \/ ReadOk \/ ReadOverflowPanic \/ ReadEof \/ ReadErr \/ PeerClose
    \/ Preflight \/ CallbackAck \/ CallbackEmit \/ Favicon \/ LoginPage

Spec == Init /\ [][Next]_vars

\* the steps the worker thread takes by itself, and the return of accept
WorkerStep ==
    \/ ForLoop \/ ReadOk \/ ReadOverflowPanic \/ ReadEof \/ ReadErr
    \/ Preflight \/ CallbackAck \/ CallbackEmit \/ Favicon \/ LoginPage

AcceptReturns == AcceptOk \/ AcceptErr

\* the states in which the worker thread has a step to take: it is not blocked
\* in accept or in a read of a connection that is open and silent.  This is
\* ENABLED <<WorkerStep>>_vars written out: ForLoop, the dispatch branches and
\* the emit are total, and a read returns when bytes, the end or an error is
\* there
WorkerCanStep ==
    \/ pc \in {"for", "dispatch", "emit"}
    \/ pc = "read" /\ (stream.segs # <<>> \/ stream.end \in {"eof", "err"})

\* weak fairness of the worker thread, WF_vars(WorkerStep) with its ENABLED
\* written out as WorkerCanStep
WorkerScheduled == []<>(~WorkerCanStep) \/ []<><<WorkerStep>>_vars

\* the behaviours in which the worker thread is scheduled, every accept call
\* returns, and every peer that has sent its bytes closes
LiveSpec ==
    /\ Init /\ [][Next]_vars
    /\ WorkerScheduled
    /\ WF_vars(AcceptReturns)
    /\ WF_vars(PeerClose)

\* the states of the session in the words of the design
Listening == pc \in {"for", "accept"}
Handling == pc \in {"read", "dispatch", "emit"}
Stopped == pc \in {"done", "panicked"}

----------------------------------------------------------------------------
\* read_request on its own: the worker has accepted its first connection and
\* reads it until read_request returns.  The peers of this specification send
\* long requests, cut into the segments the reads return.

\* the most bytes a long request holds, in reads of TmpSize bytes
MaxSegs == 18

\* n bytes 'a'
Fill(n) == [k \in 1..n |-> 97]

\* s cut into segments of z bytes, the last one shorter
RECURSIVE Chunks(_, _)
Chunks(s, z) ==
    IF s = <<>> THEN <<>>
    ELSE IF Len(s) <= z THEN <<s>>
    ELSE <<SubSeq(s, 1, z)>> \o Chunks(SubSeq(s, z + 1, Len(s)), z)

\* the sizes of the segments of a long request
SegSizes == {TmpSize, TmpSize \div 2}

\* a request that never holds the header terminator
BigNoTerminator == Fill(MaxSegs * TmpSize)

\* 'POST /callback HTTP/1.1\r\nContent-Length: 70000\r\n\r\n'
BigDeclaredHead == <<
    80, 79, 83, 84, 32, 47, 99, 97, 108, 108, 98, 97, 99, 107, 32, 72, 84, 84, 80, 47, 49, 46, 49, 13,
    10, 67, 111, 110, 116, 101, 110, 116, 45, 76, 101, 110, 103, 116, 104, 58, 32, 55, 48, 48, 48, 48, 13, 10,
    13, 10 >>

\* complete headers that declare 70000 body bytes, and body bytes
BigDeclared == BigDeclaredHead \o Fill(MaxSegs * TmpSize - Len(BigDeclaredHead))

\* 'POST /callback HTTP/1.1\r\nX-Name: \xe9\r\nContent-Length: 1\r\n\r\n':
\* a header value in Latin-1, which is no UTF-8 text
Latin1Head == <<
    80, 79, 83, 84, 32, 47, 99, 97, 108, 108, 98, 97, 99, 107, 32, 72, 84, 84, 80, 47, 49, 46, 49, 13,
    10, 88, 45, 78, 97, 109, 101, 58, 32, 233, 13, 10, 67, 111, 110, 116, 101, 110, 116, 45, 76, 101, 110, 103,
    116, 104, 58, 32, 49, 13, 10, 13, 10 >>

\* the same header block with the value in UTF-8 (0xC3 0xA9)
Utf8Head == <<
    80, 79, 83, 84, 32, 47, 99, 97, 108, 108, 98, 97, 99, 107, 32, 72, 84, 84, 80, 47, 49, 46, 49, 13,
    10, 88, 45, 78, 97, 109, 101, 58, 32, 195, 169, 13, 10, 67, 111, 110, 116, 101, 110, 116, 45, 76, 101, 110, 103,
    116, 104, 58, 32, 49, 13, 10, 13, 10 >>

\* requests with a one-byte body behind a header block that holds a
\* non-ASCII value: whole in one read, then the peer waits, closes, or sends
\* two bytes more
NonAsciiHeaderConns ==
    {Conn(<<Latin1Head \o <<123>>>>, "open"),
     Conn(<<Latin1Head \o <<123>>>>, "eof"),
     Conn(<<Latin1Head \o <<123>>, <<125, 125>>>>, "open"),
     Conn(<<Utf8Head \o <<123>>>>, "open"),
     Conn(<<Utf8Head>>, "open")}

\* Content-Length values that are no number: 'abc', '', '-5', '1:2', and
\* 2^64, which is a number but no usize
LengthValues ==
    { <<97, 98, 99>>, <<>>, <<45, 53>>, <<49, 58, 50>>,
      <<49, 56, 52, 52, 54, 55, 52, 52, 48, 55, 51, 55, 48, 57, 53, 53, 49, 54, 49, 54>> }

\* a callback POST whose Content-Length header has the value v
LengthHead(v) == CallbackHead \o v \o CRLFCRLF

\* headers without a Content-Length, or with one of LengthValues, followed by
\* 13 bytes in a later read; the header block whole, or cut before its last
\* two bytes
OddLengthConns ==
    {Conn(<<h, UidBody>>, "open") : h \in {LengthHead(v) : v \in LengthValues} \cup {ReqGetRoot}}
    \cup {Conn(<<SubSeq(h, 1, Len(h) - 2), SubSeq(h, Len(h) - 1, Len(h)), UidBody>>, "open") :
              h \in {LengthHead(v) : v \in LengthValues} \cup {ReqGetRoot}}

BigConnections ==
    {Conn(Chunks(r, z), "open") : r \in {BigNoTerminator, BigDeclared}, z \in SegSizes}

ReadConnections ==
    BigConnections
    \cup CallbackConns
    \cup NonAsciiHeaderConns
    \cup OddLengthConns
    \cup NbspConns
    \cup {Conn(<<ReqOptionsHuge>>, "open"), Conn(<<ReqPartial>>, "eof"),
          Conn(<<ReqPartial>>, "err")}

\* the state after bind, local_addr, spawn, Ok(port), the first iteration
\* and the first accept
ReadInit ==
    /\ caller = "returned"
    /\ \E p \in Ports :
          /\ ret = [kind |-> "Ok", port |-> p]
          /\ listener = [state |-> "listening", port |-> p]
    /\ pc = "read"
    /\ i = 1
    /\ accepted = 1
    /\ acceptErrs = 0
    /\ stream \in ReadConnections
    /\ buf = <<>>
    /\ reads = 0
    /\ request = <<>>
    /\ written = <<>>
    /\ responses = 0
    /\ emitted = <<>>

ReadNext == ReadOk \/ ReadOverflowPanic \/ ReadEof \/ ReadErr \/ PeerClose

ReadSpec == ReadInit /\ [][ReadNext]_vars

----------------------------------------------------------------------------
\* Reading a response off the wire, as a client does: the status line, the
\* header lines up to the blank line, the body after it.

\* 'GET'
GET == <<71, 69, 84>>
\* 'HTTP/1.1 204 No Content'
StatusLine204 == <<72, 84, 84, 80, 47, 49, 46, 49, 32, 50, 48, 52, 32, 78, 111, 32, 67, 111, 110, 116, 101, 110, 116>>
\* 'HTTP/1.1 200 OK'
StatusLine200 == <<72, 84, 84, 80, 47, 49, 46, 49, 32, 50, 48, 48, 32, 79, 75>>
\* 'Access-Control-Allow-Origin: *'
HdrAllowOrigin == <<
    65, 99, 99, 101, 115, 115, 45, 67, 111, 110, 116, 114, 111, 108, 45, 65, 108, 108, 111, 119, 45, 79, 114, 105,
    103, 105, 110, 58, 32, 42 >>
\* 'Access-Control-Allow-Methods: POST, GET, OPTIONS'
HdrAllowMethods == <<
    65, 99, 99, 101, 115, 115, 45, 67, 111, 110, 116, 114, 111, 108, 45, 65, 108, 108, 111, 119, 45, 77, 101, 116,
    104, 111, 100, 115, 58, 32, 80, 79, 83, 84, 44, 32, 71, 69, 84, 44, 32, 79, 80, 84, 73, 79, 78, 83 >>
\* 'Access-Control-Allow-Headers: Content-Type'
HdrAllowHeaders == <<
    65, 99, 99, 101, 115, 115, 45, 67, 111, 110, 116, 114, 111, 108, 45, 65, 108, 108, 111, 119, 45, 72, 101, 97,
    100, 101, 114, 115, 58, 32, 67, 111, 110, 116, 101, 110, 116, 45, 84, 121, 112, 101 >>
\* 'Connection: close'
HdrConnectionClose == <<67, 111, 110, 110, 101, 99, 116, 105, 111, 110, 58, 32, 99, 108, 111, 115, 101>>
\* 'Content-Length: '
HdrContentLength == <<67, 111, 110, 116, 101, 110, 116, 45, 76, 101, 110, 103, 116, 104, 58, 32>>
\* 'Content-Type: text/html'
HdrContentTypeHtml == <<67, 111, 110, 116, 101, 110, 116, 45, 84, 121, 112, 101, 58, 32, 116, 101, 120, 116, 47, 104, 116, 109, 108>>
\* '/anything-unmatched'
PathUnmatched == <<47, 97, 110, 121, 116, 104, 105, 110, 103, 45, 117, 110, 109, 97, 116, 99, 104, 101, 100>>
\* '{"ok":true}'
OkTrue == <<123, 34, 111, 107, 34, 58, 116, 114, 117, 101, 125>>
\* '<title>AI Todo - Google Login</title>'
PageTitle == <<
    60, 116, 105, 116, 108, 101, 62, 65, 73, 32, 84, 111, 100, 111, 32, 45, 32, 71, 111, 111, 103, 108, 101, 32,
    76, 111, 103, 105, 110, 60, 47, 116, 105, 116, 108, 101, 62 >>

\* response w as a client parses it: the status line, the header lines up
\* to the blank line, and the bytes after the blank line
Wire(w) ==
    LET e == Find(w, CRLFCRLF)
        head == IF e = None THEN <<>> ELSE Lines(Slice(w, 0, e))
    IN [status |-> IF head = <<>> THEN <<>> ELSE head[1],
        headers |-> IF head = <<>> THEN <<>> ELSE Tail(head),
        body |-> IF e = None THEN <<>> ELSE SliceFrom(w, e + 4)]

HasHeader(r, line) == \E k \in 1..Len(r.headers) : r.headers[k] = line

HeaderStarts(r, prefix) == \E k \in 1..Len(r.headers) : StartsWith(r.headers[k], prefix)

\* the texts after 'Content-Length: ' in the headers
DeclaredLengths(r) ==
    {SliceFrom(r.headers[k], Len(HdrContentLength)) :
        k \in {j \in 1..Len(r.headers) : StartsWith(r.headers[j], HdrContentLength)}}

Cors(r) ==
    /\ HasHeader(r, HdrAllowOrigin)
    /\ HasHeader(r, HdrAllowMethods)
    /\ HasHeader(r, HdrAllowHeaders)

\* w is one 204 response with an empty body and the three CORS headers
Is204Empty(w) ==
    LET r == Wire(w)
    IN /\ r.status = StatusLine204
       /\ r.body = <<>>
       /\ DeclaredLengths(r) = {<<48>>}
       /\ Cors(r)

\* w is one 200 response whose body is exactly {"ok":true}, declared as 11 bytes
IsAck(w) ==
    LET r == Wire(w)
    IN /\ r.status = StatusLine200
       /\ r.body = OkTrue
       /\ DeclaredLengths(r) = {<<49, 49>>}

\* w is one 200 text/html response whose body is the login page
IsLoginPage(w) ==
    LET r == Wire(w)
    IN /\ r.status = StatusLine200
       /\ HeaderStarts(r, HdrContentTypeHtml)
       /\ r.body = LOGIN_HTML
       /\ Find(r.body, PageTitle) # None

\* the worker takes a step out of the dispatch of the request it has read
Dispatching == pc = "dispatch" /\ pc' # pc

\* what a handler that only answers leaves alone: the session goes on at
\* the head of the loop with its counters, its listener and its event log
GoesOn ==
    /\ pc' = "for"
    /\ responses' = responses + 1
    /\ UNCHANGED << i, accepted, acceptErrs, listener, emitted >>

----------------------------------------------------------------------------
\* C1: a session runs at most 20 iterations; every iteration is exactly one
\* accept call, answered by a connection or by an error, so connections and
\* failed accepts together never exceed the iterations begun; without a
\* callback the worker ends only after the 20th iteration, the listener is
\* then closed, and never more than 20 connections are accepted or answered.
C1_IterationBudget ==
    /\ i \in 0..MaxIterations
    /\ accepted + acceptErrs + (IF pc = "accept" THEN 1 ELSE 0) = i
    /\ accepted <= MaxIterations
    /\ responses <= accepted
    /\ (pc = "done" /\ emitted = <<>>) => i = MaxIterations
    /\ Stopped => listener.state = "closed"
    /\ pc \in {"accept", "read", "dispatch", "emit"} => listener.state = "listening"

\* the 20 iterations are used up by connections and failed accepts, no
\* callback came, the worker has ended and the listener is closed
C1_Witness ==
    /\ pc = "done"
    /\ emitted = <<>>
    /\ i = MaxIterations
    /\ acceptErrs >= 1
    /\ accepted >= 1
    /\ responses >= 1
    /\ listener.state = "closed"

\* C2: "oauth-callback" is emitted at most once in a session, and the request
\* in hand when it is emitted has the method POST exactly and a path that
\* starts with /callback.
C2_EmitOnlyOnCallback ==
    /\ Len(emitted) <= 1
    /\ emitted # <<>> =>
          /\ emitted[1].event = "oauth-callback"
          /\ method(request) = POST
          /\ StartsWith(path(request), CallbackPrefix)
          /\ accepted >= 1

\* the event was emitted for a path that is longer than /callback
C2_Witness ==
    /\ Len(emitted) = 1
    /\ method(request) = POST
    /\ path(request) # CallbackPrefix
    /\ StartsWith(path(request), CallbackPrefix)

\* C3: once a POST to a /callback path is dispatched the worker writes the
\* acknowledgement, emits and leaves the loop: from the acknowledgement on no
\* connection is accepted or answered, whatever budget remains, and once
\* stopped the worker never does anything again.
C3_StopsAfterCallback ==
    /\ [][(Dispatching /\ Route(method(request), path(request)) = "callback")
              => pc' = "emit"]_vars
    /\ [][(pc = "emit" /\ pc' # pc)
              => /\ pc' = "done"
                 /\ listener'.state = "closed"
                 /\ UNCHANGED << i, accepted, acceptErrs, responses, written >>]_vars
    /\ [][Stopped => (Stopped' /\ UNCHANGED workerVars /\ listener'.state = "closed")]_vars
    /\ [](emitted # <<>> => pc = "done")

\* the callback came on the first connection: the worker has stopped with 19
\* iterations unused
C3_Witness ==
    /\ pc = "done"
    /\ emitted # <<>>
    /\ i = 1
    /\ accepted = 1
    /\ listener.state = "closed"

\* C4: whenever the event is emitted, the 200 acknowledgement has already been
\* handed to the socket of the same connection in an earlier step.
C4_AckBeforeEmit ==
    [][emitted' # emitted => (IsAck(written) /\ written' = written)]_vars

\* the event is emitted and the acknowledgement is on the wire
C4_Witness == emitted # <<>> /\ IsAck(written)

\* C5 as stated: after any OPTIONS request, at any iteration, the answer is
\* 204 with an empty body and the CORS headers, nothing is emitted, and a
\* request that follows can still be served, that is, the loop has an
\* iteration left for it.
C5_AsStated ==
    (pc = "for" /\ written # <<>> /\ method(request) = OPTIONS)
        => /\ Is204Empty(written)
           /\ emitted = <<>>
           /\ listener.state = "listening"
           /\ i < MaxIterations

\* C5 as amended: an OPTIONS request, to any path and at any iteration, is
\* answered with 204, an empty body and the CORS headers, emits nothing and
\* sends the worker back to the head of the loop; a request that follows is
\* accepted unless the OPTIONS request used the 20th iteration.
C5_PreflightGoesOn ==
    /\ [][(Dispatching /\ method(request) = OPTIONS)
              => (Is204Empty(written') /\ GoesOn)]_vars
    /\ [][(pc = "for" /\ pc' # pc /\ method(request) = OPTIONS /\ i < MaxIterations)
              => (pc' = "accept" /\ listener'.state = "listening")]_vars
    /\ [](pc = "accept" => ENABLED AcceptOk)

\* an OPTIONS request to /callback was answered with 204 after other
\* iterations, and the worker accepts again
C5_Witness ==
    /\ pc = "for"
    /\ method(request) = OPTIONS
    /\ path(request) = CallbackPrefix
    /\ Is204Empty(written)
    /\ i \in 2..(MaxIterations - 1)
    /\ ENABLED ForLoop

\* the body bytes the peer sent on this connection: what follows the first
\* blank line of the bytes received
RawBody(b) == LET e == Find(b, CRLFCRLF) IN IF e = None THEN <<>> ELSE SliceFrom(b, e + 4)

\* the bytes received are a header block that declares Content-Length N and
\* exactly N body bytes
FullyDelivered(b) ==
    LET e == Find(b, CRLFCRLF)
        line == IF e = None THEN NoStr ELSE ContentLengthLine(Slice(b, 0, e))
        cl == IF line = NoStr THEN [ok |-> FALSE, val |-> <<>>] ELSE ContentLength(line[1])
    IN /\ e # None
       /\ line # NoStr
       /\ cl.ok
       /\ Len(cl.val) <= 6
       /\ DecVal(cl.val) = Len(RawBody(b))

\* C6: for a callback POST whose declared body is fully delivered, whatever
\* its bytes, the payload emitted is the body byte for byte and the answer is
\* 200 with the body {"ok":true} declared as 11 bytes.
C6_PayloadVerbatim ==
    (emitted # <<>> /\ FullyDelivered(Concat(buf)))
        => /\ emitted[1].payload = RawBody(Concat(buf))
           /\ IsAck(written)

\* a fully delivered one-byte body that is no UTF-8 text was acknowledged and
\* forwarded as U+FFFD
C6_Witness ==
    /\ emitted # <<>>
    /\ FullyDelivered(Concat(buf))
    /\ RawBody(Concat(buf)) = <<169>>
    /\ emitted[1].payload = Replacement
    /\ IsAck(written)

\* C7: every response on the wire declares as Content-Length the number of
\* bytes that follow its blank line, and carries the three CORS headers and
\* Connection: close.
C7_ContentLength ==
    written # <<>>
        => LET r == Wire(written)
           IN /\ DeclaredLengths(r) = {FormatUsize(Len(r.body))}
              /\ Cors(r)
              /\ HasHeader(r, HdrConnectionClose)

\* the login page, whose body holds multi-byte characters, is on the wire
C7_Witness ==
    /\ IsLoginPage(written)
    /\ LET r == Wire(written)
       IN /\ \E k \in 1..Len(r.body) : r.body[k] >= 128
          /\ Len(r.body) # StrLen_Chars(r.body)

\* C8: a port is returned only once the listener is bound to it, and the
\* return waits for nothing the worker does; when bind or local_addr fails the
\* call returns Err, no worker runs, no listener listens and nothing is or
\* will be emitted.
C8_Start ==
    /\ ret.kind = "Ok" =>
          /\ listener.state # "unbound"
          /\ ret.port = listener.port
          /\ ret.port \in Ports
          /\ pc # "none"
    /\ caller = "spawned" => ENABLED Return
    /\ ret.kind = "Err" =>
          /\ pc = "none"
          /\ listener.state # "listening"
          /\ i = 0 /\ accepted = 0 /\ responses = 0 /\ emitted = <<>>
          /\ ~ ENABLED Next
    /\ ret.kind = "none" <=> caller # "returned"

\* local_addr failed after a successful bind: Err is returned and the
\* listener is gone
C8_Witness ==
    /\ ret.kind = "Err"
    /\ listener.state = "closed"
    /\ listener.port \in Ports
    /\ pc = "none"

\* C9: a GET to /favicon.ico is answered with 204 and an empty body, not
\* with the login page, emits nothing and sends the worker back to the head
\* of the loop with nothing else changed.
C9_Favicon ==
    [][(Dispatching /\ method(request) = GET /\ path(request) = FaviconPath)
          => (Is204Empty(written') /\ ~IsLoginPage(written')
              /\ Len(written') < Len(LOGIN_HTML) /\ GoesOn)]_vars

\* GET /favicon.ico was answered with 204 and the loop has iterations left
C9_Witness ==
    /\ pc = "for"
    /\ method(request) = GET
    /\ path(request) = FaviconPath
    /\ Is204Empty(written)
    /\ i < MaxIterations

\* C10: a GET to any path other than /favicon.ico is answered with 200,
\* Content-Type text/html and the login page, emits nothing and sends the
\* worker back to the head of the loop.
C10_LoginPage ==
    [][(Dispatching /\ method(request) = GET /\ path(request) # FaviconPath)
          => (IsLoginPage(written') /\ GoesOn)]_vars

\* GET /anything-unmatched was answered with the login page
C10_Witness ==
    /\ pc = "for"
    /\ method(request) = GET
    /\ path(request) = PathUnmatched
    /\ IsLoginPage(written)

\* C11: the reader never goes on once the buffer exceeds the ceiling of 65536
\* bytes, whatever the headers declare: a reader that is still reading holds
\* at most 65536 bytes.
C11_Ceiling == pc = "read" => Len(Concat(buf)) <= ReadCeiling

\* the headers are complete and declare 70000 bytes, the buffer holds more
\* than 65536 bytes, and the reader reads on
C11_Witness ==
    /\ pc = "read"
    /\ Len(Concat(buf)) > ReadCeiling
    /\ StartsWith(Concat(buf), BigDeclaredHead)
    /\ stream.segs # <<>>

\* what the bytes b received so far declare: whether the header terminator is
\* among them, its byte offset e, and the Content-Length of the header block
Declared(b) ==
    LET e == Find(b, CRLFCRLF)
        line == IF e = None THEN NoStr
                ELSE ContentLengthLine(from_utf8_lossy(Slice(b, 0, e)))
        cl == IF line = NoStr THEN [ok |-> FALSE, val |-> <<>>] ELSE ContentLength(line[1])
    IN [complete |-> e # None, e |-> e, present |-> line # NoStr, ok |-> cl.ok, n |-> cl.val]

\* the declared length is small enough for e + 4 + n to be an ordinary sum
SmallLength(d) == d.complete /\ d.ok /\ Len(d.n) <= 6

\* C12: with complete headers and a parseable Content-Length N the reader
\* stops exactly when the buffer holds the byte offset of the terminator + 4
\* + N bytes: it is never still reading with that many bytes in hand (not
\* later), and it never returned with fewer unless the peer closed or the
\* read failed (not earlier); whatever the bytes of the header block.
C12_Threshold ==
    LET b == Concat(buf)
        d == Declared(b)
    IN SmallLength(d) =>
          /\ pc = "read" => Len(b) < d.e + 4 + DecVal(d.n)
          /\ (pc = "dispatch" /\ ~(stream.segs = <<>> /\ stream.end \in {"eof", "err"}))
                 => Len(b) >= d.e + 4 + DecVal(d.n)

\* the header block holds a byte that is no UTF-8 text, the declared body
\* byte has arrived, and the reader waits for more
C12_Witness ==
    /\ pc = "read"
    /\ Concat(buf) = Latin1Head \o <<123>>
    /\ stream.segs = <<>>
    /\ stream.end = "open"

\* the value of the Content-Length header of header block h as HTTP defines
\* it: the text after the first ':' of the line, trimmed
HeaderValue(h) ==
    LET line == ContentLengthLine(h)
    IN IF line = NoStr THEN NoStr
       ELSE Some(Trim(SliceFrom(line[1], Find(line[1], <<58>>) + 1)))

\* C13: once the header terminator is in the buffer, a reader whose header
\* block holds no Content-Length, or one whose value is no non-negative
\* integer, has stopped: it is never at another read.
C13_NoBodyExpected ==
    LET b == Concat(buf)
        e == Find(b, CRLFCRLF)
        v == HeaderValue(from_utf8_lossy(Slice(b, 0, e)))
    IN (pc = "read" /\ e # None) => (v # NoStr /\ ParseUsize(v[1]).ok)

\* the header block is complete, its Content-Length value is '1:2', and the
\* reader is at another read
C13_Witness ==
    /\ pc = "read"
    /\ Concat(buf) = LengthHead(<<49, 58, 50>>)
    /\ stream.segs # <<>>

\* the iteration in hand ended with a failed accept: the worker is back at
\* the head of the loop and the iteration had no connection
AfterFailedAccept == pc = "for" /\ i >= 1 /\ stream = NoConn

\* C14: a failed accept writes nothing, emits nothing and changes no counter
\* but that of the failures: the iteration it ends is the one unit it costs;
\* the worker is then at the head of the loop with the listener listening,
\* and goes on to the next accept, or ends if the iteration was the 20th.
C14_AcceptErrSwallowed ==
    /\ [][(pc = "accept" /\ acceptErrs' # acceptErrs)
              => /\ pc' = "for"
                 /\ acceptErrs' = acceptErrs + 1
                 /\ UNCHANGED << i, accepted, responses, written, emitted, listener,
                                 stream, request >>]_vars
    /\ [](AfterFailedAccept
              => /\ written = <<>>
                 /\ accepted + acceptErrs = i
                 /\ listener.state = "listening")
    /\ [][(AfterFailedAccept /\ pc' # pc)
              => IF i < MaxIterations
                 THEN pc' = "accept" /\ i' = i + 1 /\ listener'.state = "listening"
                 ELSE pc' = "done" /\ i' = i]_vars

\* an accept failed after a connection was answered, and iterations are left
C14_Witness ==
    /\ AfterFailedAccept
    /\ acceptErrs >= 1
    /\ responses >= 1
    /\ i < MaxIterations
    /\ emitted = <<>>

\* C15: connections are handled one at a time: at most one accepted
\* connection is without its response, and whenever the worker is between
\* connections or has stopped, every accepted connection has got exactly one
\* response.
C15_OneAtATime ==
    /\ accepted - responses \in {0, 1}
    /\ Handling => stream # NoConn
    /\ pc \in {"read", "dispatch"} => responses = accepted - 1
    /\ (Listening \/ Stopped \/ pc = "emit") => responses = accepted

\* the worker has stopped and the connection it accepted last got no response
C15_Witness ==
    /\ Stopped
    /\ accepted = responses + 1
    /\ written = <<>>
    /\ listener.state = "closed"

\* the request line of req has no method token or no path token
Malformed(req) == Len(SplitWhitespace(first_line(req))) <= 1

\* C16 as stated: a request without a method or without a path token, once
\* handled, was answered with the login page, nothing was emitted and the
\* listener still listens.
C16_AsStated ==
    (pc = "for" /\ written # <<>> /\ Malformed(request))
        => /\ IsLoginPage(written)
           /\ emitted = <<>>
           /\ listener.state = "listening"

\* C16 as amended: a request without a method or without a path token is
\* dispatched with the path / and, when it has no token at all, the empty
\* method; it is answered with the login page, unless its one token is
\* OPTIONS, which is answered with 204 like every OPTIONS request; it emits
\* nothing and sends the worker back to the head of the loop.
C16_Malformed ==
    [][(Dispatching /\ Malformed(request))
          => /\ path(request) = RootPath
             /\ SplitWhitespace(first_line(request)) = <<>> => method(request) = <<>>
             /\ IF method(request) = OPTIONS
                THEN Is204Empty(written')
                ELSE IsLoginPage(written')
             /\ GoesOn]_vars

\* the peer closed before sending anything and got the login page
C16_Witness ==
    /\ pc = "for"
    /\ stream = Conn(<<>>, "eof")
    /\ reads = 1
    /\ request = <<>>
    /\ IsLoginPage(written)
    /\ emitted = <<>>

\* the part of the termination that holds in every build: when the worker is
\* scheduled, every accept returns and every peer closes after its bytes, a
\* worker that was spawned eventually stops, and a stopped worker stays
\* stopped
EventuallyStops ==
    /\ [](pc # "none" => <>Stopped)
    /\ [][Stopped => Stopped']_vars

\* C17: under these assumptions a spawned worker eventually stops and stays
\* stopped, and it stops in one of two ways: after a callback was emitted, or
\* after the 20th iteration.
C17_Terminates ==
    /\ EventuallyStops
    /\ [](Stopped => (emitted # <<>> \/ i = MaxIterations))

\* the worker has stopped in the read of its first connection, with no
\* callback emitted and 19 iterations left
C17_Witness ==
    /\ pc = "panicked"
    /\ emitted = <<>>
    /\ i = 1
    /\ stream.segs = <<>>
    /\ buf = << ReqOptionsHuge >>

\* C18: a POST to a /callback path is acknowledged with 200, then the event
\* is emitted and the worker stops; the payload is the text of everything
\* received behind the first header terminator, whatever Content-Length was
\* declared: shorter than the declared length when the reader returned before
\* the declared bytes were there, longer when more than the declared bytes
\* were received, and empty when no header terminator was received.
C18_PayloadIsRest ==
    /\ [][(Dispatching /\ method(request) = POST /\ StartsWith(path(request), CallbackPrefix))
              => (pc' = "emit" /\ IsAck(written') /\ emitted' = emitted)]_vars
    /\ [][(pc = "emit" /\ pc' # pc)
              => LET b == Concat(buf)
                     d == Declared(b)
                     p == emitted'[Len(emitted')].payload
                 IN /\ emitted' = Append(emitted, [event |-> "oauth-callback", payload |-> p])
                    /\ p = from_utf8_lossy(RawBody(b))
                    /\ ~d.complete => p = <<>>
                    /\ SmallLength(d) =>
                          /\ Len(b) < d.e + 4 + DecVal(d.n) => StrLen(p) < DecVal(d.n)
                          /\ Len(b) > d.e + 4 + DecVal(d.n) => StrLen(p) > DecVal(d.n)
                    /\ pc' = "done"
                    /\ listener'.state = "closed"]_vars

\* 2 bytes were declared, the peer closed after the first byte of the
\* character: the request was acknowledged and the payload, U+FFFD, is 3 bytes
C18_Witness ==
    /\ pc = "done"
    /\ Concat(buf) = CallbackHeaders(<<195, 169>>) \o <<195>>
    /\ stream.end = "eof"
    /\ IsAck(written)
    /\ Len(emitted) = 1
    /\ emitted[1].payload = Replacement
    /\ StrLen(emitted[1].payload) = 3

\* C19: whenever the bytes received hold a header block with a Content-Length
\* that parses as a usize, the sum of the offset behind the terminator and
\* the declared length is itself a usize; so the worker never aborts in
\* read_request, and the reader never returns from a connection that is
\* still open with fewer bytes than the header block and the declared body.
C19_ThresholdInRange ==
    LET b == Concat(buf)
        d == Declared(b)
        need == DecAdd(DecOf(d.e + 4), d.n)
    IN /\ pc # "panicked"
       /\ (d.complete /\ d.ok) =>
             /\ ~DecLess(UsizeMax, need)
             /\ (pc = "dispatch" /\ ~(stream.segs = <<>> /\ stream.end \in {"eof", "err"}))
                    => ~DecLess(DecOf(Len(b)), need)

\* 2^64 - 1 body bytes were declared and none was received: in the build in
\* which the sum wraps the reader has returned after one read, from a
\* connection that is still open
C19_Witness ==
    /\ pc = "dispatch"
    /\ Concat(buf) = ReqOptionsHuge
    /\ Declared(Concat(buf)).n = UsizeMax
    /\ reads = 1
    /\ stream.end = "open"
    /\ request = ReqOptionsHuge

====
